---- MODULE Spec2Model ----
(***************************************************************************)
(* Model of the place-review aggregation tool of the Travel_Agent backend  *)
(* (backend/app/Tools/place_reviews_tool.py) together with the parts of    *)
(* the two provider adapters it relies on (backend/app/API).               *)
(*                                                                         *)
(* Python strings are TLA+ strings (sequences of characters).  The text    *)
(* returned by the tool is kept as the sequence of its lines: the returned *)
(* string is those lines joined by "\n".  The pictographs and bullets the  *)
(* code puts in front of some labels are left out of the lines.            *)
(***************************************************************************)
EXTENDS Integers, Sequences, FiniteSets, TLC

(***************************************************************************)
(* Python values                                                           *)
(***************************************************************************)

\* Python's None, for the optional strings, numbers and records of the code.
None == "<None>"

\* Truthiness of an optional string: neither None nor "".
Truthy(s) == s # None /\ s # ""

Whitespace == {" ", "\t", "\n"}

Digits == {"0", "1", "2", "3", "4", "5", "6", "7", "8", "9"}

UpperCase == <<"A", "B", "C", "D", "E", "F", "G", "H", "I", "J", "K", "L", "M",
               "N", "O", "P", "Q", "R", "S", "T", "U", "V", "W", "X", "Y", "Z">>

LowerCase == <<"a", "b", "c", "d", "e", "f", "g", "h", "i", "j", "k", "l", "m",
               "n", "o", "p", "q", "r", "s", "t", "u", "v", "w", "x", "y", "z">>

\* The i-th character of s, as a one-character string.
CharAt(s, i) == SubSeq(s, i, i)

\* The part of s from position i on.
From(s, i) == SubSeq(s, i, Len(s))

\* str.lower() of one character.
LowerChar(c) ==
    IF \E k \in 1..26 : UpperCase[k] = c
    THEN LowerCase[CHOOSE k \in 1..26 : UpperCase[k] = c]
    ELSE c

RECURSIVE Lower(_)
\* str.lower()
Lower(s) ==
    IF s = "" THEN ""
    ELSE LowerChar(CharAt(s, 1)) \o Lower(From(s, 2))

\* s[i:] starts with sub.
StartsWithAt(s, sub, i) ==
    /\ i + Len(sub) - 1 <= Len(s)
    /\ SubSeq(s, i, i + Len(sub) - 1) = sub

\* Python's `sub in s`.
Contains(s, sub) == \E i \in 1..(Len(s) + 1) : StartsWithAt(s, sub, i)

RECURSIVE Replace(_, _, _)
\* str.replace(old, new) for a non-empty old: every non-overlapping
\* occurrence, found left to right, is replaced.
Replace(s, old, new) ==
    IF s = "" THEN ""
    ELSE IF StartsWithAt(s, old, 1)
         THEN new \o Replace(From(s, Len(old) + 1), old, new)
         ELSE CharAt(s, 1) \o Replace(From(s, 2), old, new)

RECURSIVE LStrip(_)
LStrip(s) ==
    IF s # "" /\ CharAt(s, 1) \in Whitespace THEN LStrip(From(s, 2)) ELSE s

RECURSIVE RStrip(_)
RStrip(s) ==
    IF s # "" /\ CharAt(s, Len(s)) \in Whitespace
    THEN RStrip(SubSeq(s, 1, Len(s) - 1))
    ELSE s

\* str.strip()
Strip(s) == RStrip(LStrip(s))

RECURSIVE SplitOn(_, _, _)
\* str.split(sep) for a one-character sep: the pieces between the
\* separators, the empty ones included.  cur is the piece being read.
SplitOn(s, sep, cur) ==
    IF s = "" THEN <<cur>>
    ELSE IF CharAt(s, 1) = sep
         THEN <<cur>> \o SplitOn(From(s, 2), sep, "")
         ELSE SplitOn(From(s, 2), sep, cur \o CharAt(s, 1))

SplitComma(s) == SplitOn(s, ",", "")

RECURSIVE SplitWs(_, _)
\* str.split() without argument: the maximal runs of non-whitespace.
SplitWs(s, cur) ==
    IF s = "" THEN (IF cur = "" THEN <<>> ELSE <<cur>>)
    ELSE IF CharAt(s, 1) \in Whitespace
         THEN (IF cur = "" THEN <<>> ELSE <<cur>>) \o SplitWs(From(s, 2), "")
         ELSE SplitWs(From(s, 2), cur \o CharAt(s, 1))

Split(s) == SplitWs(s, "")

RECURSIVE Join(_, _)
\* sep.join(parts)
Join(parts, sep) ==
    IF parts = <<>> THEN ""
    ELSE IF Len(parts) = 1 THEN parts[1]
    ELSE parts[1] \o sep \o Join(Tail(parts), sep)

\* str.isdigit() on ASCII text: non-empty and digits only.
IsDigit(w) == w # "" /\ \A i \in 1..Len(w) : CharAt(w, i) \in Digits

\* set(words)
SetOf(seq) == {seq[i] : i \in 1..Len(seq)}

(***************************************************************************)
(* Provider adapters (backend/app/API)                                     *)
(***************************************************************************)

MinQueryLen == 2

MaxQueryLen == 200

\* An exception: its class ("ValueError" is a subclass that the tool catches
\* separately, "Exception" stands for every other class) and str(e).
Raises(type, msg) == [ok |-> FALSE, exc |-> [type |-> type, msg |-> msg]]

Returns(value) == [ok |-> TRUE, value |-> value]

\* _validate_place_query that rejects a query of exactly 200 characters, as
\* its message "must be less than 200 characters" would have it.
_validate_place_query_LessThanMax(query) ==
    IF ~Truthy(query)
    THEN Raises("ValueError", "Place query must be a non-empty string")
    ELSE IF Len(Strip(query)) < MinQueryLen
    THEN Raises("ValueError", "Place query must be at least 2 characters long")
    ELSE IF Len(Strip(query)) >= MaxQueryLen
    THEN Raises("ValueError", "Place query must be less than 200 characters")
    ELSE Returns(Strip(query))

\* GooglePlacesClient._validate_place_query and
\* TripAdvisorClient._validate_place_query (the same code).
_validate_place_query(query) ==
    IF ~Truthy(query)
    THEN Raises("ValueError", "Place query must be a non-empty string")
    ELSE IF Len(Strip(query)) < MinQueryLen
    THEN Raises("ValueError", "Place query must be at least 2 characters long")
    ELSE IF Len(Strip(query)) > MaxQueryLen
    THEN Raises("ValueError", "Place query must be less than 200 characters")
    ELSE Returns(Strip(query))

\* Python's None for the optional numbers (a rating in tenths, a count of
\* reviews, a unix time).
NoneNum == -1

\* str() of a float with one decimal, kept in tenths, as an f-string prints it.
FloatStr(t) == ToString(t \div 10) \o "." \o ToString(t % 10)

\* Review (both adapters): rating, text, time, relative_time_description.
\* The rating is only ever printed: it is kept as its str(), "5" for the
\* int of Google Places and "4.0" for the float of TripAdvisor, or None.
Review(rating, text, time, rel) ==
    [rating |-> rating, text |-> text, time |-> time,
     relative_time_description |-> rel]

\* PlaceDetails (both adapters), without the provider's own id.
PlaceDetails(name, address, rating, total, reviews) ==
    [name |-> name, address |-> address, rating |-> rating,
     total_reviews |-> total, reviews |-> reviews]

\* What the Google Places service can answer to one get_reviews(query).
GooglePlaces ==
    { PlaceDetails("Eiffel Tower", "Av. Gustave Eiffel, 75007 Paris, France", 46, 1000,
                   <<Review("5", "Great view", 1700049600, "a week ago"),
                     Review("2", "Too crowded", NoneNum, None)>>),
      PlaceDetails("Sherlock Holmes Museum", "221B Baker St, London, UK", 44, 200, <<>>),
      PlaceDetails("Carlton Tel Aviv", "19 Hayarkon St, Tel Aviv, Israel",
                   NoneNum, NoneNum, <<>>),
      PlaceDetails("Joe's Diner", "5 Main St, Springfield, USA", 40, 12, <<>>),
      PlaceDetails("Lakeside Grill", "12 Lake Stevens Rd, Everett, USA", 42, 10, <<>>),
      PlaceDetails("Galeries Lafayette", "40 Boulevard Haussmann, Paris", 44, 50, <<>>),
      PlaceDetails("Paris", "Paris", NoneNum, NoneNum, <<>>),
      PlaceDetails("Central Park", None, 48, NoneNum, <<>>) }

\* What the TripAdvisor service can answer to one get_reviews(query, location).
TripAdvisorPlaces ==
    { PlaceDetails("Eiffel Tower Paris", "Avenue Gustave Eiffel, 75007 Paris, France",
                   44, 900, <<Review("4.0", "Worth a visit", 1700049600, None)>>),
      PlaceDetails("Carlton Hotel", "19 Hayarkon Street, Tel Aviv-Yafo, Israel",
                   40, 30, <<>>),
      PlaceDetails("City Hall", "200 Oak Ave, Springfield, USA", 30, NoneNum, <<>>),
      PlaceDetails("Stevens Bistro", "12 Stevens Road, Everett", 40, 8, <<>>),
      PlaceDetails("Lafayette Store", "Boulevard Haussmann", 40, NoneNum, <<>>),
      PlaceDetails("Beach Hostel", "21 Hayarkon St, Tel Aviv, Israel", 38, 5, <<>>),
      PlaceDetails("Paris", "Paris", NoneNum, NoneNum, <<>>),
      PlaceDetails("Central Park", None, 46, NoneNum, <<>>) }

\* An answer of a service that is no place.
Failure(kind) == [failure |-> kind]

\* The answers of the Google service that are no place.
GoogleFailures ==
    {Failure(k) : k \in {"no_api_key", "zero_results", "no_details", "api_error"}}

\* GooglePlacesClient.get_reviews behind get_place_reviews(query): the
\* client is built, the query validated, the place searched and its
\* details fetched; answer is what the service does.
get_place_reviews(query, answer) ==
    IF answer = Failure("no_api_key")
    THEN Raises("ValueError", "GOOGLE_PLACES_API_KEY environment variable is not set")
    ELSE IF ~_validate_place_query(query).ok
    THEN _validate_place_query(query)
    ELSE IF answer = Failure("api_error")
    THEN Raises("Exception", "Failed to search place: REQUEST_DENIED")
    ELSE IF answer = Failure("zero_results")
    THEN Raises("ValueError", "Place not found for query: " \o query)
    ELSE IF answer = Failure("no_details")
    THEN Raises("ValueError", "Could not retrieve details for place: " \o query)
    ELSE Returns(answer)

\* The answers of the TripAdvisor service that are no place.
TripAdvisorFailures ==
    {Failure(k) : k \in {"no_api_key", "zero_results", "no_location_id", "api_error", "timeout"}}

\* TripAdvisorClient.get_reviews behind get_location_reviews(query,
\* location, limit_reviews, language).
get_location_reviews(query, location, answer) ==
    IF answer = Failure("no_api_key")
    THEN Raises("ValueError", "TRIPADVISOR_API_KEY environment variable is not set")
    ELSE IF ~_validate_place_query(query).ok
    THEN _validate_place_query(query)
    ELSE IF answer = Failure("api_error")
    THEN Raises("Exception", "TripAdvisor API error: Too Many Requests")
    ELSE IF answer = Failure("timeout")
    THEN Raises("Exception", "Failed to connect to TripAdvisor API: Read timed out.")
    ELSE IF answer = Failure("zero_results")
    THEN Raises("ValueError", "Location not found for query: " \o query)
    ELSE IF answer = Failure("no_location_id")
    THEN Raises("ValueError",
               "Location ID not found in search results for query: " \o query)
    ELSE Returns(answer)

\* The answers of the Google service to the request of search_place.
GoogleSearchAnswers == {"results", "zero_results", "api_error", "transport_error"}

\* GooglePlacesClient.search_place(query): what it returns or raises, and
\* the requests it has sent to the service.
search_place(query, answer) ==
    LET validated == _validate_place_query(query)
    IN  IF ~validated.ok
        THEN [outcome |-> validated, requests |-> <<>>]
        ELSE [outcome |->
                 IF answer = "results" THEN Returns("ChIJ-place-1")
                 ELSE IF answer = "zero_results" THEN Returns(None)
                 ELSE IF answer = "api_error"
                 THEN Raises("Exception", "Failed to search place: REQUEST_DENIED")
                 ELSE Raises("Exception", "Connection refused"),
              requests |-> <<[api |-> "places", query |-> validated.value]>>]

\* The answers of the TripAdvisor service to the request of search_location.
TripAdvisorSearchAnswers ==
    {"results", "no_results", "not_found_404", "api_error", "timeout"}

\* The test of search_location for a location given as coordinates.
LooksLikeCoordinates(location) ==
    /\ Contains(location, ",")
    /\ \E i \in 1..Len(SplitComma(location)[1]) :
          CharAt(SplitComma(location)[1], i) \in Digits

\* TripAdvisorClient.search_location(query, location), with limit = 1: what
\* it returns or raises, and the requests it has sent to the service.  The
\* location data it returns is kept as its id and name; a parameter it does
\* not send is None.
search_location(query, location, answer) ==
    LET validated == _validate_place_query(query)
    IN  IF ~validated.ok
        THEN [outcome |-> validated, requests |-> <<>>]
        ELSE [outcome |->
                 IF answer = "results"
                 THEN Returns([locationId |-> "188151", name |-> validated.value])
                 ELSE IF answer \in {"no_results", "not_found_404"}
                 THEN Returns([none |-> TRUE])
                 ELSE IF answer = "api_error"
                 THEN Raises("Exception", "TripAdvisor API error: Too Many Requests")
                 ELSE Raises("Exception",
                             "Failed to connect to TripAdvisor API: Read timed out."),
              requests |->
                 <<[api |-> "/location/search", query |-> validated.value,
                    near |-> IF Truthy(location) /\ ~LooksLikeCoordinates(location)
                             THEN location ELSE None,
                    latlong |-> IF Truthy(location) /\ LooksLikeCoordinates(location)
                                THEN location ELSE None]>>]

\* SortedReverse that puts items of equal key in reverse order, as sorting
\* upwards and reversing the list would.
SortedReverse_TiesReversed(items, keys) ==
    LET n == Len(items)
        Before(i, j) == keys[i] > keys[j] \/ (keys[i] = keys[j] /\ i > j)
    IN  [p \in 1..n |->
            items[CHOOSE i \in 1..n : Cardinality({j \in 1..n : Before(j, i)}) = p - 1]]

\* sorted(items, key=..., reverse=True), keys[i] being the key of items[i]:
\* the items by decreasing key, items of equal key in their original order
\* (the sort is stable, also with reverse=True).
SortedReverse(items, keys) ==
    LET n == Len(items)
        Before(i, j) == keys[i] > keys[j] \/ (keys[i] = keys[j] /\ i < j)
    IN  [p \in 1..n |->
            items[CHOOSE i \in 1..n : Cardinality({j \in 1..n : Before(j, i)}) = p - 1]]

\* GooglePlacesClient._sort_reviews_by_latest
GooglePlaces_sort_reviews_by_latest(reviews) ==
    IF reviews = <<>> THEN <<>>
    ELSE SortedReverse(reviews,
             [i \in 1..Len(reviews) |->
                 IF reviews[i].time # NoneNum THEN reviews[i].time ELSE 0])

\* TripAdvisor_sort_reviews_by_latest that puts the reviews without time
\* first.
TripAdvisor_sort_reviews_by_latest_WithoutTimeFirst(reviews) ==
    IF reviews = <<>> THEN <<>>
    ELSE LET reviews_with_time    == SelectSeq(reviews, LAMBDA r : r.time # NoneNum)
             reviews_without_time == SelectSeq(reviews, LAMBDA r : r.time = NoneNum)
         IN  reviews_without_time
             \o SortedReverse(reviews_with_time,
                    [i \in 1..Len(reviews_with_time) |-> reviews_with_time[i].time])

\* TripAdvisorClient._sort_reviews_by_latest
TripAdvisor_sort_reviews_by_latest(reviews) ==
    IF reviews = <<>> THEN <<>>
    ELSE LET reviews_with_time    == SelectSeq(reviews, LAMBDA r : r.time # NoneNum)
             reviews_without_time == SelectSeq(reviews, LAMBDA r : r.time = NoneNum)
         IN  SortedReverse(reviews_with_time,
                 [i \in 1..Len(reviews_with_time) |-> reviews_with_time[i].time])
             \o reviews_without_time

(***************************************************************************)
(* The raw responses of the services and their parsing                     *)
(***************************************************************************)

\* A value of a JSON response: a number, a string or null.  An object (a
\* Python dict) is a function from its keys to their values.
JNum(n) == [num |-> n]

JStr(s) == [str |-> s]

JNull == [null |-> TRUE]

IsNum(v) == DOMAIN v = {"num"}

IsStr(v) == DOMAIN v = {"str"}

\* isinstance(v, dict)
IsDict(v) == DOMAIN v \cap {"num", "str", "null"} = {}

\* dict.get(key, default)
Get(d, key, default) == IF key \in DOMAIN d THEN d[key] ELSE default

\* bool(v) of a value: a non-empty string, a number other than 0.
JTruthy(v) == (IsStr(v) /\ v.str # "") \/ (IsNum(v) /\ v.num # 0)

\* Python's `a or b`
Or(a, b) == IF JTruthy(a) THEN a ELSE b

RECURSIVE IntOf(_)
\* int(s) of a string of digits
IntOf(s) ==
    IF s = "" THEN 0
    ELSE 10 * IntOf(SubSeq(s, 1, Len(s) - 1))
         + (CHOOSE d \in 0..9 : ToString(d) = CharAt(s, Len(s)))

\* float(s) of a string, in tenths: digits, with at most one decimal; NoneNum
\* for a string float() raises ValueError on.
FloatOf(s) ==
    LET parts == SplitOn(s, ".", "")
    IN  IF Len(parts) = 1 /\ IsDigit(parts[1]) THEN 10 * IntOf(parts[1])
        ELSE IF Len(parts) = 2 /\ IsDigit(parts[1]) /\ IsDigit(parts[2]) /\ Len(parts[2]) = 1
        THEN 10 * IntOf(parts[1]) + IntOf(parts[2])
        ELSE NoneNum

\* pydantic's validation of an Optional[int] field: an int, a string of
\* digits, or None (NoneNum); a failure otherwise.
OptionalIntField(v) ==
    IF IsNum(v) THEN Returns(v.num)
    ELSE IF v = JNull THEN Returns(NoneNum)
    ELSE IF IsStr(v) /\ IsDigit(v.str) THEN Returns(IntOf(v.str))
    ELSE Raises("Exception", "Input should be a valid integer")

\* pydantic's validation of an Optional[str] field.
OptionalStrField(v) ==
    IF IsStr(v) THEN Returns(v.str)
    ELSE IF v = JNull THEN Returns(None)
    ELSE Raises("Exception", "Input should be a valid string")

\* Review(rating=, text=, time=, relative_time_description=) of
\* google_places.py: rating an int of 1 to 5, text a str.
GoogleReview(rating, text, time, rel) ==
    IF ~OptionalIntField(rating).ok \/ rating = JNull
    THEN Raises("Exception", "rating: Input should be a valid integer")
    ELSE IF OptionalIntField(rating).value < 1
    THEN Raises("Exception", "rating: Input should be greater than or equal to 1")
    ELSE IF OptionalIntField(rating).value > 5
    THEN Raises("Exception", "rating: Input should be less than or equal to 5")
    ELSE IF ~IsStr(text) THEN Raises("Exception", "text: Input should be a valid string")
    ELSE IF ~OptionalIntField(time).ok THEN OptionalIntField(time)
    ELSE IF ~OptionalStrField(rel).ok THEN OptionalStrField(rel)
    ELSE Returns(Review(ToString(OptionalIntField(rating).value), text.str,
                        OptionalIntField(time).value, OptionalStrField(rel).value))

\* The body of the try of GooglePlacesClient._parse_reviews for one record
\* that keeps the name of the author with the review.
GoogleReviewOf_WithAuthor(review_data) ==
    IF ~IsDict(review_data)
    THEN Raises("Exception", "object has no attribute 'get'")
    ELSE LET review == GoogleReview(Get(review_data, "rating", JNum(0)),
                                    Get(review_data, "text", JStr("")),
                                    Get(review_data, "time", JNull),
                                    Get(review_data, "relative_time_description", JNull))
         IN  IF review.ok
             THEN Returns([rating |-> review.value.rating, text |-> review.value.text,
                           time |-> review.value.time,
                           relative_time_description |->
                               review.value.relative_time_description,
                           author_name |-> Get(review_data, "author_name", JNull)])
             ELSE review

\* The body of the try of GooglePlacesClient._parse_reviews for one record:
\* the Review, or the exception raised.
GoogleReviewOf(review_data) ==
    IF ~IsDict(review_data)
    THEN Raises("Exception", "object has no attribute 'get'")
    ELSE GoogleReview(Get(review_data, "rating", JNum(0)),
                      Get(review_data, "text", JStr("")),
                      Get(review_data, "time", JNull),
                      Get(review_data, "relative_time_description", JNull))

RECURSIVE GoogleParseLoop(_, _)
\* The loop of GooglePlacesClient._parse_reviews without its try: the
\* exception of a record ends the call.
GoogleParseLoop_NoTry(reviews, parsed_reviews) ==
    IF reviews = <<>> THEN Returns(parsed_reviews)
    ELSE IF GoogleReviewOf(Head(reviews)).ok
    THEN GoogleParseLoop(Tail(reviews),
                         Append(parsed_reviews, GoogleReviewOf(Head(reviews)).value))
    ELSE GoogleReviewOf(Head(reviews))

\* The loop of GooglePlacesClient._parse_reviews over the records left,
\* parsed_reviews being the list so far: `except Exception: continue`.
GoogleParseLoop(reviews, parsed_reviews) ==
    IF reviews = <<>> THEN Returns(parsed_reviews)
    ELSE IF GoogleReviewOf(Head(reviews)).ok
    THEN GoogleParseLoop(Tail(reviews),
                         Append(parsed_reviews, GoogleReviewOf(Head(reviews)).value))
    ELSE GoogleParseLoop(Tail(reviews), parsed_reviews)

\* GooglePlacesClient._parse_reviews(reviews)
GooglePlaces_parse_reviews(reviews) == GoogleParseLoop(reviews, <<>>)

\* Review(rating=, text=, time=, relative_time_description=) of
\* tripadvisor.py: rating None or a float of 1 to 5 (kept in tenths), text
\* a str.
TripAdvisorReview(rating, text, time, rel) ==
    IF rating # NoneNum /\ rating < 10
    THEN Raises("Exception", "rating: Input should be greater than or equal to 1")
    ELSE IF rating > 50
    THEN Raises("Exception", "rating: Input should be less than or equal to 5")
    ELSE IF ~IsStr(text) THEN Raises("Exception", "text: Input should be a valid string")
    ELSE IF ~OptionalStrField(rel).ok THEN OptionalStrField(rel)
    ELSE Returns(Review(IF rating = NoneNum THEN None ELSE FloatStr(rating), text.str,
                        time, OptionalStrField(rel).value))

\* float(review_data["rating"]): the float in tenths, or the exception.
RatingOf(v) ==
    IF IsNum(v) THEN Returns(10 * v.num)
    ELSE IF v = JNull
    THEN Raises("Exception", "float() argument must be a string or a real number")
    ELSE IF FloatOf(v.str) = NoneNum
    THEN Raises("Exception", "could not convert string to float")
    ELSE Returns(FloatOf(v.str))

\* The rating of a "rating_bubble" such as "5.0 of 5 bubbles": float() of
\* its first word, None when that is no number; [0] of no word at all is an
\* IndexError.
RatingBubbleOf(v) ==
    LET words == IF IsStr(v) THEN Split(v.str)
                 ELSE IF IsNum(v) THEN <<ToString(v.num)>> ELSE <<"None">>
    IN  IF words = <<>> THEN Raises("Exception", "list index out of range")
        ELSE Returns(FloatOf(words[1]))

\* datetime.strptime(...).timestamp() of the dates of the raw reviews, the
\* clock of the machine being UTC; a date of no format listed has no entry.
Timestamps ==
    [date \in {"1970-01-01T00:00:10", "1970-01-01", "1970-01-01 00:00:05"} |->
        IF date = "1970-01-01T00:00:10" THEN 10
        ELSE IF date = "1970-01-01" THEN 0 ELSE 5]

\* time_stamp of a "published_date": int() of a number, of a string the
\* time of the first format that parses pub_date.split(".")[0], else None.
TimeStampOf(pub_date) ==
    IF IsNum(pub_date) THEN pub_date.num
    ELSE IF IsStr(pub_date) /\ SplitOn(pub_date.str, ".", "")[1] \in DOMAIN Timestamps
    THEN Timestamps[SplitOn(pub_date.str, ".", "")[1]]
    ELSE NoneNum

\* No Review: the record is left out without an exception.
NoReview == [no_review |-> TRUE]

\* The body of the try of TripAdvisorClient._parse_reviews for one record:
\* the Review, NoReview for a record without text, or the exception raised.
TripAdvisorReviewOf(review_data) ==
    IF ~IsDict(review_data)
    THEN Raises("Exception", "object has no attribute 'get'")
    ELSE LET rating == IF "rating" \in DOMAIN review_data
                       THEN RatingOf(review_data["rating"])
                       ELSE IF "rating_bubble" \in DOMAIN review_data
                       THEN RatingBubbleOf(review_data["rating_bubble"])
                       ELSE Returns(NoneNum)
             text == Or(Get(review_data, "text", JStr("")),
                        Or(Get(review_data, "review_text", JStr("")),
                           Or(Get(review_data, "review", JStr("")), JStr(""))))
             time_stamp == IF "published_date" \in DOMAIN review_data
                           THEN TimeStampOf(review_data["published_date"])
                           ELSE NoneNum
             relative_time == Or(Get(review_data, "relative_time_description", JNull),
                                 Or(Get(review_data, "published_date_string", JNull),
                                    JNull))
         IN  IF ~rating.ok THEN rating
             ELSE IF ~JTruthy(text) THEN Returns(NoReview)
             ELSE TripAdvisorReview(rating.value, text, time_stamp, relative_time)

RECURSIVE TripAdvisorParseLoop(_, _)
\* The loop of TripAdvisorClient._parse_reviews over the records left,
\* parsed_reviews being the list so far: `except Exception: continue`.
TripAdvisorParseLoop(reviews, parsed_reviews) ==
    IF reviews = <<>> THEN Returns(parsed_reviews)
    ELSE IF TripAdvisorReviewOf(Head(reviews)).ok
            /\ TripAdvisorReviewOf(Head(reviews)).value # NoReview
    THEN TripAdvisorParseLoop(Tail(reviews),
             Append(parsed_reviews, TripAdvisorReviewOf(Head(reviews)).value))
    ELSE TripAdvisorParseLoop(Tail(reviews), parsed_reviews)

\* TripAdvisorClient._parse_reviews(reviews)
TripAdvisor_parse_reviews(reviews) == TripAdvisorParseLoop(reviews, <<>>)

\* The answers of the Google service to the request of get_place_details.
GoogleDetailsAnswers == {"result", "no_result", "api_error", "transport_error"}

\* GooglePlacesClient.get_place_details(place_id): the "result" of the
\* response, whose "reviews" are raw_reviews, {} (NoPlaceData) for a
\* response without "result", or the exception.
get_place_details(place_id, answer, raw_reviews) ==
    IF answer = "result"
    THEN Returns([name |-> JStr("Eiffel Tower"),
                  formatted_address |-> JStr("Av. Gustave Eiffel, 75007 Paris, France"),
                  rating |-> JNum(46), user_ratings_total |-> JNum(1000),
                  reviews |-> raw_reviews])
    ELSE IF answer = "no_result" THEN Returns([empty |-> TRUE])
    ELSE IF answer = "api_error"
    THEN Raises("Exception", "Failed to get place details: OVER_QUERY_LIMIT")
    ELSE Raises("Exception", "Connection refused")

\* GooglePlacesClient.get_reviews(query): search, details, parse, sort.
GooglePlaces_get_reviews(query, search_answer, details_answer, raw_reviews) ==
    LET place_id   == search_place(query, search_answer).outcome
        place_data == get_place_details(place_id.value, details_answer, raw_reviews)
        reviews    == GooglePlaces_parse_reviews(place_data.value.reviews)
    IN  IF ~place_id.ok THEN place_id
        ELSE IF ~Truthy(place_id.value)
        THEN Raises("ValueError", "Place not found for query: " \o query)
        ELSE IF ~place_data.ok THEN place_data
        ELSE IF place_data.value = [empty |-> TRUE]
        THEN Raises("ValueError", "Could not retrieve details for place: " \o query)
        ELSE IF ~reviews.ok THEN reviews
        ELSE Returns(PlaceDetails(place_data.value.name.str,
                         place_data.value.formatted_address.str,
                         place_data.value.rating.num,
                         place_data.value.user_ratings_total.num,
                         GooglePlaces_sort_reviews_by_latest(reviews.value)))

\* The answers of the TripAdvisor service to the request of
\* get_location_reviews.
TripAdvisorReviewsAnswers == {"data", "not_found_404", "api_error", "timeout"}

\* TripAdvisorClient.get_location_reviews(location_id, limit, language): the
\* "data" of the response, or the exception.
TripAdvisor_get_location_reviews(location_id, answer, raw_reviews) ==
    IF answer = "data" THEN Returns(raw_reviews)
    ELSE IF answer = "not_found_404" THEN Returns(<<>>)
    ELSE IF answer = "api_error"
    THEN Raises("Exception", "TripAdvisor API error: Too Many Requests")
    ELSE Raises("Exception", "Failed to connect to TripAdvisor API: Read timed out.")

\* TripAdvisor_get_reviews that lets the exception of the reviews request
\* end the call.
TripAdvisor_get_reviews_Reraising(query, location, search_answer, reviews_answer, raw_reviews) ==
    LET location_data == search_location(query, location, search_answer).outcome
        fetched == TripAdvisor_get_location_reviews(location_data.value.locationId,
                                                    reviews_answer, raw_reviews)
        reviews == TripAdvisor_parse_reviews(fetched.value)
    IN  IF ~location_data.ok THEN location_data
        ELSE IF location_data.value = [none |-> TRUE]
        THEN Raises("ValueError", "Location not found for query: " \o query)
        ELSE IF ~fetched.ok THEN fetched
        ELSE IF ~reviews.ok THEN reviews
        ELSE Returns(PlaceDetails(location_data.value.name, None, NoneNum, NoneNum,
                         TripAdvisor_sort_reviews_by_latest(reviews.value)))

\* TripAdvisorClient.get_reviews(query, location): search, reviews, parse,
\* sort.  An exception of the reviews request is logged and the reviews are
\* taken to be none.
TripAdvisor_get_reviews(query, location, search_answer, reviews_answer, raw_reviews) ==
    LET location_data == search_location(query, location, search_answer).outcome
        fetched == TripAdvisor_get_location_reviews(location_data.value.locationId,
                                                    reviews_answer, raw_reviews)
        reviews == TripAdvisor_parse_reviews(IF fetched.ok THEN fetched.value ELSE <<>>)
    IN  IF ~location_data.ok THEN location_data
        ELSE IF location_data.value = [none |-> TRUE]
        THEN Raises("ValueError", "Location not found for query: " \o query)
        ELSE IF ~reviews.ok THEN reviews
        ELSE Returns(PlaceDetails(location_data.value.name, None, NoneNum, NoneNum,
                         TripAdvisor_sort_reviews_by_latest(reviews.value)))

\* TripAdvisorClient.BASE_URL
BASE_URL == "https://api.content.tripadvisor.com/api/v1"

\* str(e) of the HTTPError of response.raise_for_status(), as requests
\* words it: the status, whose error it is, the reason phrase of the status
\* line and the url (here without its query string).
HTTPErrorStr(status, reason, url) ==
    ToString(status)
    \o (IF status < 500 THEN " Client Error: " ELSE " Server Error: ")
    \o reason \o " for url: " \o url

\* The responses of the TripAdvisor service to one request: the status, the
\* reason phrase and the body, which is JSON or not; or no response at all.
TripAdvisorResponses ==
    { [status |-> 200, reason |-> "OK", body |-> [json |-> [data |-> JStr("...")]]],
      [status |-> 404, reason |-> "Not Found",
       body |-> [json |-> [error |-> [message |-> JStr("Location was not found")]]]],
      [status |-> 404, reason |-> "Not Found",
       body |-> [json |-> [error |-> [message |-> JStr("No such endpoint")]]]],
      [status |-> 404, reason |-> "Not Found",
       body |-> [json |-> [error |-> [code |-> JStr("404")]]]],
      [status |-> 404, reason |-> "Not Found",
       body |-> [json |-> [Message |-> JStr("Missing Authentication Token")]]],
      [status |-> 404, reason |-> "Not Found", body |-> [html |-> "<html>404</html>"]],
      [status |-> 404, reason |-> "", body |-> [html |-> "<html>404</html>"]],
      [status |-> 401, reason |-> "Unauthorized",
       body |-> [json |-> [error |-> [message |-> JStr("Invalid key")]]]],
      [status |-> 403, reason |-> "Forbidden", body |-> [html |-> "<html>403</html>"]],
      [status |-> 429, reason |-> "Too Many Requests",
       body |-> [json |-> [error |-> [message |-> JStr("Too Many Requests")]]]],
      [status |-> 500, reason |-> "Internal Server Error",
       body |-> [json |-> [error |-> [message |-> JStr("Resource not found")]]]],
      [status |-> 503, reason |-> "Service Unavailable", body |-> [html |-> ""]],
      [transport |-> "Read timed out."] }

RECURSIVE LStripSlash(_)
\* endpoint.lstrip('/')
LStripSlash(endpoint) ==
    IF StartsWithAt(endpoint, "/", 1) THEN LStripSlash(From(endpoint, 2)) ELSE endpoint

\* error_message of _make_request: the "message" of the "error" of a JSON
\* body, str(e) when the body has none or is no JSON.
ErrorMessage(response, e) ==
    IF "json" \in DOMAIN response.body
       /\ "error" \in DOMAIN response.body.json
       /\ "message" \in DOMAIN response.body.json["error"]
    THEN response.body.json["error"]["message"].str
    ELSE e

\* TripAdvisorClient._make_request(endpoint, params), the service answering
\* with response: the JSON it returns ([empty |-> TRUE] for {}), or the
\* exception.
_make_request(endpoint, response) ==
    LET url == BASE_URL \o "/" \o LStripSlash(endpoint)
        error_message ==
            ErrorMessage(response, HTTPErrorStr(response.status, response.reason, url))
    IN  IF "transport" \in DOMAIN response
        THEN Raises("Exception", "Failed to connect to TripAdvisor API: " \o response.transport)
        ELSE IF response.status < 400
        THEN Returns(response.body.json)
        ELSE IF response.status = 401
        THEN Raises("Exception",
                 "Invalid TripAdvisor API key or authentication failed (401). Error: "
                 \o error_message \o ". Please verify your API key is correct and active.")
        ELSE IF response.status = 404
        THEN IF Contains(Lower(error_message), "location was not found")
                \/ Contains(Lower(error_message), "not found")
             THEN Returns([empty |-> TRUE])
             ELSE Raises("Exception",
                      "Resource not found: " \o endpoint \o ". Error: " \o error_message)
        ELSE Raises("Exception", "TripAdvisor API error: " \o error_message)

(***************************************************************************)
(* The tool (backend/app/Tools/place_reviews_tool.py)                      *)
(***************************************************************************)

\* '=' * 60
Rule ==
    "============================================================"

\* '-' * 60
Dashes ==
    "------------------------------------------------------------"

\* datetime.fromtimestamp(time).strftime("%Y-%m-%d"), for the one time the
\* reviews of the model carry (2023-11-15 12:00:00 UTC); None where the
\* conversion raises.
ReviewDate(time) == IF time = 1700049600 THEN "2023-11-15" ELSE None

\* The lines _format_place_reviews_output prints for review number i.
ReviewLines(review, i) ==
    <<"", "Review " \o ToString(i) \o ":">>
    \o (IF review.rating # None
        THEN <<"  Rating: " \o review.rating \o "/5.0">> ELSE <<>>)
    \o <<"  Review Text: " \o review.text>>
    \o (IF review.time # NoneNum /\ review.time # 0 /\ ReviewDate(review.time) # None
        THEN <<"  Date: " \o ReviewDate(review.time)>> ELSE <<>>)
    \o (IF Truthy(review.relative_time_description)
        THEN <<"  Posted: " \o review.relative_time_description>> ELSE <<>>)

RECURSIVE AllReviewLines(_, _)
\* The loop over enumerate(reviews, 1), from review number i on.
AllReviewLines(reviews, i) ==
    IF i > Len(reviews) THEN <<>>
    ELSE ReviewLines(reviews[i], i) \o AllReviewLines(reviews, i + 1)

\* _format_place_reviews_output.  error is the error text as its lines, <<>>
\* for no error.
_format_place_reviews_output(source, name, address, rating, total_reviews, reviews, error) ==
    IF error # <<>>
    THEN <<"", Rule, "Source: " \o source, "Status: ERROR - " \o Head(error)>>
         \o Tail(error) \o <<Rule>>
    ELSE <<"", Rule, "Source: " \o source>>
         \o (IF Truthy(address) THEN <<"ADDRESS: " \o address, Dashes>> ELSE <<>>)
         \o <<"Place Name: " \o name>>
         \o (IF rating # NoneNum
             THEN <<"Overall Rating: " \o FloatStr(rating) \o "/5.0">> ELSE <<>>)
         \o (IF total_reviews # NoneNum
             THEN <<"Total Reviews: " \o ToString(total_reviews)>> ELSE <<>>)
         \o (IF reviews = <<>>
             THEN <<"Reviews: No reviews available">>
             ELSE <<"", "Reviews (" \o ToString(Len(reviews)) \o " latest):", Dashes>>
                  \o AllReviewLines(reviews, 1))
         \o <<"", Rule>>

\* google_place_data / tripadvisor_place_data when the provider gave nothing.
NoData == [none |-> TRUE]

\* The dict the tool keeps of a provider's result.
PlaceData(details) ==
    [name |-> details.name, address |-> details.address, rating |-> details.rating]

\* GoogleValueErrorExplanation that explains every ValueError alike.
GoogleValueErrorExplanation_Generic(place_name, error_msg) ==
    << "Google Places API error: " \o error_msg >>

\* The explanation of a ValueError of get_place_reviews, as its lines.
GoogleValueErrorExplanation(place_name, error_msg) ==
    IF Contains(Lower(error_msg), "not found") \/ Contains(Lower(error_msg), "place not found")
    THEN << "The place '" \o place_name \o "' was not found in Google Places. Possible reasons:",
            "1. The place name might be misspelled or incomplete",
            "2. The location context might be too specific or incorrect",
            "3. Try providing a more general location (e.g., 'Paris' instead of '123 Main St, Paris')",
            "4. Try a more complete place name (e.g., 'Eiffel Tower' instead of just 'Eiffel')",
            "5. The place might not exist in Google Places database" >>
    ELSE << "Google Places API error: " \o error_msg >>

\* google_output after the call of get_place_reviews came back with outcome.
GoogleOutput(place_name, outcome) ==
    IF outcome.ok
    THEN _format_place_reviews_output("Google Places", outcome.value.name,
             outcome.value.address, outcome.value.rating,
             outcome.value.total_reviews, outcome.value.reviews, <<>>)
    ELSE IF outcome.exc.type = "ValueError"
    THEN _format_place_reviews_output("Google Places", place_name, None, NoneNum,
             NoneNum, <<>>, GoogleValueErrorExplanation(place_name, outcome.exc.msg))
    ELSE _format_place_reviews_output("Google Places", place_name, None, NoneNum,
             NoneNum, <<>>,
             << "Unexpected error with Google Places API: " \o outcome.exc.msg >>)

\* address_parts: the comma-separated parts of the address, each stripped.
AddressParts(google_address) ==
    [i \in 1..Len(SplitComma(google_address)) |-> Strip(SplitComma(google_address)[i])]

\* Unique that removes nothing.
Unique_KeepAll(attempts, seen) == attempts

RECURSIVE Unique(_, _)
\* "Remove duplicates while preserving order": the items of attempts not in
\* seen, each once, in order.
Unique(attempts, seen) ==
    IF attempts = <<>> THEN <<>>
    ELSE IF Head(attempts) \in seen
         THEN Unique(Tail(attempts), seen)
         ELSE <<Head(attempts)>> \o Unique(Tail(attempts), seen \cup {Head(attempts)})

\* location_attempts for an address of at least two parts.
LocationAttempts(google_address, location) ==
    LET address_parts == AddressParts(google_address)
        n == Len(address_parts)
    IN  Unique(<<address_parts[n - 1] \o ", " \o address_parts[n], address_parts[n - 1]>>
               \o (IF Truthy(location) THEN <<location>> ELSE <<>>), {})

\* The explanation printed when TripAdvisor gave no data, as its lines.
TripAdvisorExplanation ==
    << "The place could not be found in TripAdvisor after trying multiple search strategies. This might mean:",
       "1. The place doesn't exist in TripAdvisor's database",
       "2. The place name or location might need to be different on TripAdvisor",
       "3. Try searching TripAdvisor directly with the place name" >>

\* tripadvisor_output
TripAdvisorOutput(place_name, tripadvisor_data) ==
    IF tripadvisor_data # NoData
    THEN _format_place_reviews_output("TripAdvisor", tripadvisor_data.name,
             tripadvisor_data.address, tripadvisor_data.rating,
             tripadvisor_data.total_reviews, tripadvisor_data.reviews, <<>>)
    ELSE _format_place_reviews_output("TripAdvisor", place_name, None, NoneNum,
             NoneNum, <<>>, TripAdvisorExplanation)

\* normalize_address
normalize_address(addr) ==
    LET lowered   == Lower(addr)
        suffixed  == Replace(Replace(Replace(Replace(lowered,
                         " street", " st"), " avenue", " ave"), " road", " rd"),
                         " boulevard", " blvd")
        collapsed == Join(Split(suffixed), " ")
    IN  Strip(Replace(Replace(collapsed, ".", ""), ",", ""))

\* The street_name of extract_street_info with the street-type suffixes
\* removed, in the order of the code.
RemoveStreetSuffixes(street_name) ==
    Replace(Replace(Replace(Replace(Replace(Replace(street_name,
        " street", ""), " st", ""), " avenue", ""), " ave", ""), " road", ""), " rd", "")

\* extract_street_info: <<street_num, street_name>>
extract_street_info(addr) ==
    IF addr = "" THEN <<"", "">>
    ELSE LET street_part == Strip(SplitComma(addr)[1])
             words       == Split(street_part)
         IN  IF words # <<>> /\ IsDigit(words[1])
             THEN <<words[1], Strip(RemoveStreetSuffixes(Lower(Join(Tail(words), " "))))>>
             ELSE <<"", Lower(street_part)>>

\* The words two streets must have in common: longer than 2 characters.
StreetCommonWords(google_street_name, tripadvisor_street_name) ==
    {w \in SetOf(Split(google_street_name)) \cap SetOf(Split(tripadvisor_street_name)) :
        Len(w) > 2}

\* The words two normalized addresses must have in common: longer than 3
\* characters and none of "the", "and", "at".
AddressCommonWords(google_addr_normalized, tripadvisor_addr_normalized) ==
    {w \in SetOf(Split(google_addr_normalized)) \cap SetOf(Split(tripadvisor_addr_normalized)) :
        Len(w) > 3 /\ w \notin {"the", "and", "at"}}

\* addresses_match, from the address fields of the two results.
AddressesMatch(google_address, tripadvisor_address) ==
    LET google_addr      == Lower(IF Truthy(google_address) THEN google_address ELSE "")
        tripadvisor_addr == Lower(IF Truthy(tripadvisor_address) THEN tripadvisor_address ELSE "")
        google_addr_normalized ==
            IF google_addr # "" THEN normalize_address(google_addr) ELSE ""
        tripadvisor_addr_normalized ==
            IF tripadvisor_addr # "" THEN normalize_address(tripadvisor_addr) ELSE ""
        google_street      == extract_street_info(google_addr)
        tripadvisor_street == extract_street_info(tripadvisor_addr)
    IN  IF google_street[1] # "" /\ tripadvisor_street[1] # ""
        THEN /\ google_street[1] = tripadvisor_street[1]
             /\ StreetCommonWords(google_street[2], tripadvisor_street[2]) # {}
        ELSE IF google_addr_normalized # "" /\ tripadvisor_addr_normalized # ""
        THEN Cardinality(AddressCommonWords(google_addr_normalized,
                                            tripadvisor_addr_normalized)) >= 2
        ELSE FALSE

\* The words of a place name that count: longer than 3 characters.
NameWords(name) == {w \in SetOf(Split(Strip(Lower(name)))) : Len(w) > 3}

\* NamesMatch that is content with one word in common.
NamesMatch_OneWord(google_name, tripadvisor_name) ==
    Cardinality(NameWords(google_name) \cap NameWords(tripadvisor_name)) >= 1

\* The comparison of the names, made when the addresses do not match.
NamesMatch(google_name, tripadvisor_name) ==
    Cardinality(NameWords(google_name) \cap NameWords(tripadvisor_name)) >= 2

\* PlacesMatch that starts from places_match = False: a missing result
\* leaves the places different.
PlacesMatch_StartsFalse(google_place_data, tripadvisor_place_data) ==
    IF google_place_data # NoData /\ tripadvisor_place_data # NoData
    THEN \/ AddressesMatch(google_place_data.address, tripadvisor_place_data.address)
         \/ NamesMatch(google_place_data.name, tripadvisor_place_data.name)
    ELSE FALSE

\* places_match
PlacesMatch(google_place_data, tripadvisor_place_data) ==
    IF google_place_data # NoData /\ tripadvisor_place_data # NoData
    THEN \/ AddressesMatch(google_place_data.address, tripadvisor_place_data.address)
         \/ NamesMatch(google_place_data.name, tripadvisor_place_data.name)
    ELSE TRUE

\* The lines of the warning itself, for two places that were found.
WarningLines(google_place_data, tripadvisor_place_data) ==
    <<"", "WARNING: DIFFERENT PLACES FOUND",
      "Google Places and TripAdvisor returned different locations:",
      "  Google Places: " \o google_place_data.name \o " at "
          \o (IF Truthy(google_place_data.address) THEN google_place_data.address
              ELSE "Address not available"),
      "  TripAdvisor: " \o tripadvisor_place_data.name \o " at "
          \o (IF Truthy(tripadvisor_place_data.address) THEN tripadvisor_place_data.address
              ELSE "Address not available"),
      "Please note these are DIFFERENT places. Provide information separately and ask the user which one they want details about.",
      Dashes, "">>

\* DifferentPlacesWarning that does not look at places_match.
DifferentPlacesWarning_Always(google_place_data, tripadvisor_place_data, places_match) ==
    IF google_place_data # NoData /\ tripadvisor_place_data # NoData
    THEN WarningLines(google_place_data, tripadvisor_place_data)
    ELSE <<>>

\* Lines 438-445: the warning printed when different places were found.
DifferentPlacesWarning(google_place_data, tripadvisor_place_data, places_match) ==
    IF ~places_match /\ google_place_data # NoData /\ tripadvisor_place_data # NoData
    THEN WarningLines(google_place_data, tripadvisor_place_data)
    ELSE <<>>

\* AverageRatingLine that does not look at places_match.
AverageRatingLine_AnyPlaces(google_rating, tripadvisor_rating, places_match) ==
    IF google_rating # NoneNum /\ tripadvisor_rating # NoneNum
    THEN <<"  Average Rating: "
           \o FloatStr((google_rating + tripadvisor_rating) \div 2) \o "/5.0">>
    ELSE <<>>

\* Lines 462-465: the average of the two ratings, for the same place only.
\* The ratings of the model have an even sum, so that the average has one
\* decimal and the rounding of "{avg_rating:.1f}" does not matter.
AverageRatingLine(google_rating, tripadvisor_rating, places_match) ==
    IF places_match /\ google_rating # NoneNum /\ tripadvisor_rating # NoneNum
    THEN <<"  Average Rating: "
           \o FloatStr((google_rating + tripadvisor_rating) \div 2) \o "/5.0">>
    ELSE <<>>

\* The text the tool returns when nothing was raised, as its lines.
CombinedOutput(place_name, location, google_place_data, tripadvisor_place_data, google_output, tripadvisor_output, places_match) ==
    LET google_address == IF google_place_data # NoData THEN google_place_data.address ELSE None
        google_rating  == IF google_place_data # NoData THEN google_place_data.rating ELSE NoneNum
        google_name    == IF google_place_data # NoData THEN google_place_data.name ELSE None
        tripadvisor_address ==
            IF tripadvisor_place_data # NoData THEN tripadvisor_place_data.address ELSE None
        tripadvisor_rating ==
            IF tripadvisor_place_data # NoData THEN tripadvisor_place_data.rating ELSE NoneNum
        tripadvisor_name ==
            IF tripadvisor_place_data # NoData THEN tripadvisor_place_data.name ELSE None
    IN  <<"", "PLACE REVIEWS SUMMARY", Rule,
          "Search Query: " \o place_name
              \o (IF Truthy(location) THEN " (in " \o location \o ")" ELSE ""),
          Rule>>
        \o DifferentPlacesWarning(google_place_data, tripadvisor_place_data, places_match)
        \o <<"", "LOCATION INFORMATION:">>
        \o (IF Truthy(google_name) /\ Truthy(google_address)
            THEN <<"  Google Places:", "     Name: " \o google_name,
                   "     Address: " \o google_address>>
                 \o (IF google_rating # NoneNum
                     THEN <<"     Rating: " \o FloatStr(google_rating) \o "/5.0">> ELSE <<>>)
            ELSE <<>>)
        \o (IF Truthy(tripadvisor_name) /\ Truthy(tripadvisor_address)
            THEN <<"  TripAdvisor:", "     Name: " \o tripadvisor_name,
                   "     Address: " \o tripadvisor_address>>
                 \o (IF tripadvisor_rating # NoneNum
                     THEN <<"     Rating: " \o FloatStr(tripadvisor_rating) \o "/5.0">>
                     ELSE <<>>)
            ELSE <<>>)
        \o AverageRatingLine(google_rating, tripadvisor_rating, places_match)
        \o <<"", Dashes, "">>
        \o google_output
        \o <<"">>
        \o tripadvisor_output
        \o <<"", Rule, "SUMMARY:",
             "This tool searched for reviews from both Google Places and TripAdvisor.">>
        \o (IF ~places_match
            THEN <<"IMPORTANT: Different places were found. Clearly indicate this to the user and separate the information for each place.",
                   "IMPORTANT: Ask the user which place they're interested in, or if they want details about both.">>
            ELSE <<"The address(es) and ratings shown above indicate the location found.">>)
        \o <<"If either API returned an error, see the error explanation above.",
             "If no reviews were found, the place might not exist or have reviews.",
             "You can suggest the user try a different place name or location.",
             Rule>>

\* The string returned for an empty place_name.
InvalidPlaceNameError ==
    <<"ERROR: Invalid place_name. Please provide a non-empty string with the name of the place. Example: 'Eiffel Tower' or 'Central Park'">>

\* The string returned by the outermost handler for an exception e.
UnexpectedError(exc) ==
    <<"ERROR: Unexpected error in get_place_reviews_from_apis: " \o exc.msg
      \o ". Please try again with a different place name or location.">>

\* InvalidPlaceName without the test of place_name.strip().
InvalidPlaceName_NoStrip(pn) == ~Truthy(pn)

\* The check of place_name at the start of the tool: TRUE when it is
\* rejected.
InvalidPlaceName(pn) == ~Truthy(pn) \/ Strip(pn) = ""

\* SearchPlan that searches TripAdvisor by the name Google Places returned
\* whenever Google Places returned a place, with or without address.
SearchPlan_GoogleName(place_name, location, google_place_data) ==
    IF google_place_data # NoData
    THEN IF Truthy(google_place_data.address)
            /\ Len(AddressParts(google_place_data.address)) >= 2
         THEN [query    |-> google_place_data.name,
               attempts |-> LocationAttempts(google_place_data.address, location),
               retrying |-> TRUE]
         ELSE [query    |-> google_place_data.name,
               attempts |-> <<location>>,
               retrying |-> FALSE]
    ELSE [query |-> place_name, attempts |-> <<location>>, retrying |-> FALSE]

\* How TripAdvisor is searched, from what Google Places gave: the query,
\* the locations to try, and whether they are tried in the loop over
\* location_attempts (retrying) or in one call with the original location.
SearchPlan(place_name, location, google_place_data) ==
    IF google_place_data # NoData /\ Truthy(google_place_data.address)
    THEN IF Len(AddressParts(google_place_data.address)) >= 2
         THEN [query    |-> google_place_data.name,
               attempts |-> LocationAttempts(google_place_data.address, location),
               retrying |-> TRUE]
         ELSE [query    |-> google_place_data.name,
               attempts |-> <<location>>,
               retrying |-> FALSE]
    ELSE [query |-> place_name, attempts |-> <<location>>, retrying |-> FALSE]

\* AfterAttempt without the break: a success in the loop goes on to the
\* next location.
AfterAttempt_NoBreak(ok, retrying, attempt_num, attempts) ==
    IF retrying /\ attempt_num < attempts THEN "continue"
    ELSE IF ok THEN "break"
    ELSE IF retrying THEN "raise"
    ELSE "none"

\* What follows one call of get_location_reviews: "break" out of the loop
\* with the data, "continue" with the next location, "raise" the exception
\* of the last attempt again, or go on without data ("none").
AfterAttempt(ok, retrying, attempt_num, attempts) ==
    IF ok THEN "break"
    ELSE IF retrying /\ attempt_num < attempts THEN "continue"
    ELSE IF retrying THEN "raise"
    ELSE "none"

\* OuterHandler that lets the exception go: the invocation ends raised,
\* with no string.
OuterHandler_Escapes(exc) == [pc |-> "raised", result |-> <<>>]

\* The handler of lines 489-492, which every exception raised in the body
\* reaches: the state the invocation ends in.
OuterHandler(exc) == [pc |-> "done", result |-> UnexpectedError(exc)]

(***************************************************************************)
(* One invocation of get_place_reviews_from_apis after the other.  A step  *)
(* is the code up to the next call of a provider adapter, or to the return.*)
(***************************************************************************)

\* The place_name arguments of the model.
PlaceNameArgs == {None, "", "  ", "X", " Eiffel Tower ", "Carlton Hotel"}

\* The location arguments of the model.
LocationArgs == {None, "", "Paris, France", "London, UK", "London"}

\* The location field of a logged call whose callee takes no location.
NotPassed == "<not passed>"

\* result before the return.
NoResult == <<>>

\* error_msg of lines 149 and 177: str(e) of the exception the call of
\* get_place_reviews ended with, None when it returned.
ErrorOf(outcome) == IF outcome.ok THEN None ELSE outcome.exc.msg

VARIABLES
    pc,                 \* where the invocation stands: idle, google, tripadvisor, format, done
    args,               \* the arguments of the invocation, as the caller gave them
    place_name,         \* place_name, stripped once validated
    location,           \* location
    google_place_data,  \* google_place_data
    google_output,      \* google_output
    tripadvisor_query,  \* the query of the TripAdvisor calls
    location_attempts,  \* the locations to try against TripAdvisor
    retrying,           \* TRUE in the loop over location_attempts (lines 232-254)
    attempt_num,        \* attempt_num
    tripadvisor_data,   \* tripadvisor_data
    places_match,       \* places_match
    addresses_match,    \* addresses_match (FALSE when the addresses were not compared)
    calls,              \* the adapter calls of the invocation so far, in order
    result,             \* the returned string, as its lines
    adapter_call,       \* the last call made to an adapter function on its own
    _places_client,     \* google_places._places_client: the client, NoClient for None
    _tripadvisor_client,\* tripadvisor._tripadvisor_client
    frames,             \* of each thread, its call of get_..._client
    constructed,        \* the clients ever constructed
    handed_out,         \* the clients ever returned, and to which thread
    accessed,           \* which thread has read or written which global
    client_calls        \* the number of calls of get_..._client so far

\* The variables of an invocation of the tool.
tool_vars == <<pc, args, place_name, location, google_place_data, google_output,
               tripadvisor_query, location_attempts, retrying, attempt_num,
               tripadvisor_data, places_match, addresses_match, calls, result>>

vars == <<pc, args, place_name, location, google_place_data, google_output,
          tripadvisor_query, location_attempts, retrying, attempt_num,
          tripadvisor_data, places_match, addresses_match, calls, result,
          adapter_call, _places_client, _tripadvisor_client, frames, constructed,
          handed_out, accessed, client_calls>>

\* The globals of the two adapter modules and the calls of their accessors.
client_vars == <<_places_client, _tripadvisor_client, frames, constructed,
                 handed_out, accessed, client_calls>>

\* The threads that call the tool.
Threads == {1, 2}

\* None as the value of a global client.
NoClient == 0

\* A thread that is in no call of get_..._client.
NoFrame == [pc |-> "idle"]

\* adapter_call before any such call.
NoCall == [fn |-> "none"]

NoArgs == [place_name |-> None, location |-> None]

Init ==
    /\ pc = "idle"
    /\ args = NoArgs
    /\ place_name = None
    /\ location = None
    /\ google_place_data = NoData
    /\ google_output = <<>>
    /\ tripadvisor_query = None
    /\ location_attempts = <<>>
    /\ retrying = FALSE
    /\ attempt_num = 0
    /\ tripadvisor_data = NoData
    /\ places_match = TRUE
    /\ addresses_match = FALSE
    /\ calls = <<>>
    /\ result = NoResult
    /\ adapter_call = NoCall
    /\ _places_client = NoClient
    /\ _tripadvisor_client = NoClient
    /\ frames = [t \in Threads |-> NoFrame]
    /\ constructed = {}
    /\ handed_out = {}
    /\ accessed = {}
    /\ client_calls = 0

\* Lines 111-127: the tool is called; an invalid place_name is answered at
\* once, a valid one is stripped.
Invoke(pn, loc) ==
    /\ pc = "idle"
    /\ args' = [place_name |-> pn, location |-> loc]
    /\ location' = loc
    /\ IF InvalidPlaceName(pn)
       THEN /\ place_name' = pn
            /\ result' = InvalidPlaceNameError
            /\ pc' = "done"
       ELSE /\ place_name' = Strip(pn)
            /\ result' = NoResult
            /\ pc' = "google"
    /\ UNCHANGED <<google_place_data, google_output, tripadvisor_query,
                   location_attempts, retrying, attempt_num, tripadvisor_data,
                   places_match, addresses_match, calls, adapter_call, client_vars>>

\* Lines 129-230: get_place_reviews(place_name) is called and comes back
\* with a result or an exception; the TripAdvisor search is prepared.
CallGoogle(answer) ==
    /\ pc = "google"
    /\ LET outcome == get_place_reviews(place_name, answer)
           data    == IF outcome.ok THEN PlaceData(outcome.value) ELSE NoData
           plan    == SearchPlan(place_name, location, data)
       IN  /\ calls' = Append(calls, [provider |-> "google", query |-> place_name,
                                      location |-> NotPassed, ok |-> outcome.ok,
                                      error |-> ErrorOf(outcome)])
           /\ google_place_data' = data
           /\ google_output' = GoogleOutput(place_name, outcome)
           /\ tripadvisor_query' = plan.query
           /\ location_attempts' = plan.attempts
           /\ retrying' = plan.retrying
    /\ attempt_num' = 1
    /\ pc' = "tripadvisor"
    /\ UNCHANGED <<args, place_name, location, tripadvisor_data, places_match,
                   addresses_match, result, adapter_call, client_vars>>

\* Lines 232-291: one call of get_location_reviews.  In the loop over
\* location_attempts a failure moves on to the next location and the failure
\* of the last one is raised again, up to the handler of lines 489-492;
\* outside the loop a failure leaves tripadvisor_data None.
CallTripAdvisor(answer) ==
    /\ pc = "tripadvisor"
    /\ LET location_attempt == location_attempts[attempt_num]
           outcome == get_location_reviews(tripadvisor_query, location_attempt, answer)
           after   == AfterAttempt(outcome.ok, retrying, attempt_num,
                                   Len(location_attempts))
       IN  /\ calls' = Append(calls, [provider |-> "tripadvisor",
                                      query |-> tripadvisor_query,
                                      location |-> location_attempt, ok |-> outcome.ok])
           /\ tripadvisor_data' = IF outcome.ok THEN outcome.value
                                  ELSE IF after = "none" THEN NoData
                                  ELSE tripadvisor_data
           /\ attempt_num' = IF after = "continue" THEN attempt_num + 1 ELSE attempt_num
           /\ pc' = IF after = "continue" THEN "tripadvisor"
                    ELSE IF after = "raise" THEN OuterHandler(outcome.exc).pc
                    ELSE "format"
           /\ result' = IF after = "raise" THEN OuterHandler(outcome.exc).result
                        ELSE result
    /\ UNCHANGED <<args, place_name, location, google_place_data, google_output,
                   tripadvisor_query, location_attempts, retrying, places_match,
                   addresses_match, adapter_call, client_vars>>

\* Lines 293-487: both outputs are there; the places are compared and the
\* combined text is returned.
Format ==
    /\ pc = "format"
    /\ LET tripadvisor_place_data ==
               IF tripadvisor_data # NoData THEN PlaceData(tripadvisor_data) ELSE NoData
           compared == google_place_data # NoData /\ tripadvisor_place_data # NoData
           match    == PlacesMatch(google_place_data, tripadvisor_place_data)
       IN  /\ addresses_match' =
                  (compared /\ AddressesMatch(google_place_data.address,
                                              tripadvisor_place_data.address))
           /\ places_match' = match
           /\ result' = CombinedOutput(place_name, location, google_place_data,
                            tripadvisor_place_data, google_output,
                            TripAdvisorOutput(place_name, tripadvisor_data), match)
    /\ pc' = "done"
    /\ UNCHANGED <<args, place_name, location, google_place_data, google_output,
                   tripadvisor_query, location_attempts, retrying, attempt_num,
                   tripadvisor_data, calls, adapter_call, client_vars>>

\* The caller has the string; the next invocation starts afresh (every
\* variable of the function is local to one call).
Finish ==
    /\ pc = "done"
    /\ pc' = "idle"
    /\ args' = NoArgs
    /\ place_name' = None
    /\ location' = None
    /\ google_place_data' = NoData
    /\ google_output' = <<>>
    /\ tripadvisor_query' = None
    /\ location_attempts' = <<>>
    /\ retrying' = FALSE
    /\ attempt_num' = 0
    /\ tripadvisor_data' = NoData
    /\ places_match' = TRUE
    /\ addresses_match' = FALSE
    /\ calls' = <<>>
    /\ result' = NoResult
    /\ UNCHANGED <<adapter_call, client_vars>>

Next ==
    \/ \E pn \in PlaceNameArgs, loc \in LocationArgs : Invoke(pn, loc)
    \/ \E answer \in GooglePlaces \cup GoogleFailures : CallGoogle(answer)
    \/ \E answer \in TripAdvisorPlaces \cup TripAdvisorFailures : CallTripAdvisor(answer)
    \/ Format
    \/ Finish

Spec == Init /\ [][Next]_vars

(***************************************************************************)
(* The functions of the adapters called on their own, as the tests of the  *)
(* adapters call them: a step is one call, from its arguments to what it   *)
(* returns, one call after the other.                                      *)
(***************************************************************************)

RECURSIVE Repeat(_, _)
\* c * n
Repeat(c, n) ==
    IF n = 0 THEN ""
    ELSE IF n % 2 = 0 THEN Repeat(c, n \div 2) \o Repeat(c, n \div 2)
    ELSE c \o Repeat(c, n - 1)

\* The queries of the calls: none, too short, a usual one, and those at the
\* limits of the length, with and without whitespace around.
QueryArgs ==
    { None, "", " ", "a", " a ", "ab", " ab\n", "\t Eiffel Tower  ",
      Repeat("a", MaxQueryLen - 1),
      Repeat("a", MaxQueryLen),
      "  " \o Repeat("a", MaxQueryLen) \o " ",
      Repeat("a", MaxQueryLen + 1),
      " " \o Repeat("a", MaxQueryLen + 1) }

\* The locations of the calls of search_location.
SearchLocationArgs == {None, "", "Paris, France", "48.85,2.29"}

\* The longest list of reviews that is sorted, the one below aside.
MaxReviews == 3

\* The times of the reviews that are sorted: None, the start of the epoch
\* and three later times.
ReviewTimes == {NoneNum, 0, 1, 5, 10}

\* A list of five times, two of them None.
FiveTimes == <<5, NoneNum, 10, NoneNum, 1>>

\* The lists of times of the reviews that are sorted.
TimeLists == UNION {[1..n -> ReviewTimes] : n \in 0..MaxReviews} \cup {FiveTimes}

\* Reviews of the given times; the text tells which one it was in the list.
ReviewsOf(times) ==
    [i \in 1..Len(times) |-> Review("5", "review " \o ToString(i), times[i], None)]

\* The longest list of raw review records that is parsed, the ones below
\* aside.
MaxBatch == 2

\* Raw review records of Google Places: the two of test_parse_reviews_valid,
\* one of stars only, and records that are no Review: no rating, a rating
\* out of range or of words, no dict at all; and one of empty text.
GoogleRawReviews ==
    { [author_name |-> JStr("John Doe"), rating |-> JNum(5), text |-> JStr("Great place!"),
       time |-> JNum(10), relative_time_description |-> JStr("2 months ago")],
      [author_name |-> JStr("Jane Smith"), rating |-> JNum(3), text |-> JStr("Okay place."),
       time |-> JNum(5)],
      [author_name |-> JStr("Sam"), rating |-> JNum(4), time |-> JNum(1)],
      [author_name |-> JStr("Kim"), text |-> JStr("No stars")],
      [rating |-> JNum(6), text |-> JStr("Six stars")],
      [rating |-> JStr("great"), text |-> JStr("Words")],
      [rating |-> JNum(1), text |-> JStr(""), time |-> JNull],
      JNull }

\* A record that is no Review between the two of the test.
GoogleMixedBatch ==
    << [author_name |-> JStr("John Doe"), rating |-> JNum(5), text |-> JStr("Great place!"),
        time |-> JNum(10), relative_time_description |-> JStr("2 months ago")],
       [author_name |-> JStr("Kim"), text |-> JStr("No stars")],
       [author_name |-> JStr("Jane Smith"), rating |-> JNum(3), text |-> JStr("Okay place."),
        time |-> JNum(5)] >>

\* Six records of one response.
SixGoogleReviews ==
    [i \in 1..6 |-> [author_name |-> JStr("John Doe"), rating |-> JNum(5),
                     text |-> JStr("Great place!"), time |-> JNum(i)]]

\* The lists of raw review records of Google Places.
GoogleBatches ==
    UNION {[1..n -> GoogleRawReviews] : n \in 0..MaxBatch}
    \cup {GoogleMixedBatch, SixGoogleReviews}

\* Raw review records of TripAdvisor: the three of test_parse_reviews, one
\* of the other names of the fields, and records that are no Review: no
\* text, a rating of words or out of range, no first word of the
\* rating_bubble, no dict at all.
TripAdvisorRawReviews ==
    { [rating |-> JNum(5), text |-> JStr("Amazing place!"),
       published_date |-> JStr("1970-01-01T00:00:10"),
       relative_time_description |-> JStr("2 months ago"),
       user |-> [username |-> JStr("traveller1")]],
      [rating |-> JNum(4), text |-> JStr("Good experience"), published_date |-> JNum(5),
       relative_time_description |-> JStr("1 month ago")],
      [text |-> JStr("Nice location")],
      [rating_bubble |-> JStr("5.0 of 5 bubbles"), review_text |-> JStr("Bubbly"),
       published_date |-> JStr("1970-01-01.500"),
       published_date_string |-> JStr("yesterday"),
       user |-> [username |-> JStr("traveller2")]],
      [rating |-> JNum(5), published_date |-> JNum(1)],
      [rating |-> JStr("great"), text |-> JStr("Words")],
      [rating |-> JNum(0), text |-> JStr("Zero")],
      [rating_bubble |-> JStr(""), text |-> JStr("No bubbles")],
      JNull }

\* A record that is no Review between two of the test.
TripAdvisorMixedBatch ==
    << [rating |-> JNum(4), text |-> JStr("Good experience"), published_date |-> JNum(5),
        relative_time_description |-> JStr("1 month ago")],
       [rating |-> JStr("great"), text |-> JStr("Words")],
       [text |-> JStr("Nice location")] >>

\* Six records of one response.
SixTripAdvisorReviews ==
    [i \in 1..6 |-> [rating |-> JNum(4), text |-> JStr("Good experience"),
                     published_date |-> JNum(i)]]

\* The lists of raw review records of TripAdvisor.
TripAdvisorBatches ==
    UNION {[1..n -> TripAdvisorRawReviews] : n \in 0..MaxBatch}
    \cup {TripAdvisorMixedBatch, SixTripAdvisorReviews}

\* The fields of a raw review record that tell who wrote it.
AuthorFields == {"author_name", "author_url", "profile_photo_url", "user"}

\* The names the authors of a response are changed to; "" for a response
\* without any field of AuthorFields.
OtherAuthors == {"", "Eve"}

\* The record with its author changed to author.
OtherAuthor(review_data, author) ==
    IF ~IsDict(review_data) THEN review_data
    ELSE IF author = ""
    THEN [key \in DOMAIN review_data \ AuthorFields |-> review_data[key]]
    ELSE [key \in DOMAIN review_data \cup {"author_name", "user"} |->
             IF key = "author_name" THEN JStr(author)
             ELSE IF key = "user" THEN [username |-> JStr(author)]
             ELSE review_data[key]]

\* The response with the author of every record changed to author.
OtherAuthors_of(reviews, author) ==
    [i \in 1..Len(reviews) |-> OtherAuthor(reviews[i], author)]

\* The queries of the calls of get_reviews.
GetReviewsQueries == {"", "Eiffel Tower"}

\* GooglePlacesClient._parse_reviews(reviews) is called.
ParseGoogleReviews(reviews) ==
    /\ adapter_call = NoCall
    /\ adapter_call' = [fn |-> "GooglePlaces_parse_reviews", raw |-> reviews,
                        outcome |-> GooglePlaces_parse_reviews(reviews)]
    /\ UNCHANGED <<tool_vars, client_vars>>

\* TripAdvisorClient._parse_reviews(reviews) is called.
ParseTripAdvisorReviews(reviews) ==
    /\ adapter_call = NoCall
    /\ adapter_call' = [fn |-> "TripAdvisor_parse_reviews", raw |-> reviews,
                        outcome |-> TripAdvisor_parse_reviews(reviews)]
    /\ UNCHANGED <<tool_vars, client_vars>>

\* GooglePlacesClient.get_reviews(query) is called and the service answers;
\* `other` is what the call returns, and the tool prints of it, when the
\* reviews of the answer are by author instead.
GoogleGetReviews(query, search_answer, details_answer, reviews, author) ==
    /\ adapter_call = NoCall
    /\ search_answer # "results" => details_answer = "result"
    /\ details_answer # "result" => reviews = <<>>
    /\ reviews = <<>> => author = ""
    /\ LET outcome == GooglePlaces_get_reviews(query, search_answer, details_answer, reviews)
           other   == GooglePlaces_get_reviews(query, search_answer, details_answer,
                                               OtherAuthors_of(reviews, author))
       IN  adapter_call' =
              [fn |-> "GooglePlaces_get_reviews", query |-> query,
               answers |-> <<search_answer, details_answer>>, raw |-> reviews,
               outcome |-> outcome, output |-> GoogleOutput(query, outcome),
               author |-> author,
               other |-> [outcome |-> other, output |-> GoogleOutput(query, other)]]
    /\ UNCHANGED <<tool_vars, client_vars>>

\* TripAdvisorClient.get_reviews(query, location) is called and the service
\* answers; `other` as for GoogleGetReviews.
TripAdvisorGetReviews(query, loc, search_answer, reviews_answer, reviews, author) ==
    /\ adapter_call = NoCall
    /\ search_answer # "results" => reviews_answer = "data"
    /\ reviews_answer # "data" => reviews = <<>>
    /\ reviews = <<>> => author = ""
    /\ LET outcome == TripAdvisor_get_reviews(query, loc, search_answer, reviews_answer, reviews)
           other   == TripAdvisor_get_reviews(query, loc, search_answer, reviews_answer,
                                              OtherAuthors_of(reviews, author))
           data(o) == IF o.ok THEN o.value ELSE NoData
       IN  adapter_call' =
              [fn |-> "TripAdvisor_get_reviews", query |-> query,
               answers |-> <<search_answer, reviews_answer>>, raw |-> reviews,
               outcome |-> outcome, output |-> TripAdvisorOutput(query, data(outcome)),
               author |-> author,
               other |-> [outcome |-> other, output |-> TripAdvisorOutput(query, data(other))]]
    /\ UNCHANGED <<tool_vars, client_vars>>

\* The endpoints of the requests: the search, the reviews of a location, and
\* one the service does not have.
Endpoints == {"/location/search", "/location/188151/reviews", "/locations/search"}

\* TripAdvisorClient._make_request(endpoint) is called and the service
\* answers.
MakeRequest(endpoint, response) ==
    /\ adapter_call = NoCall
    /\ adapter_call' = [fn |-> "_make_request", endpoint |-> endpoint,
                        response |-> response,
                        outcome |-> _make_request(endpoint, response)]
    /\ UNCHANGED <<tool_vars, client_vars>>

\* GooglePlacesClient.search_place(query) is called.
SearchPlace(query, answer) ==
    /\ adapter_call = NoCall
    /\ adapter_call' = [fn |-> "search_place", query |-> query,
                        outcome |-> search_place(query, answer).outcome,
                        requests |-> search_place(query, answer).requests]
    /\ UNCHANGED <<tool_vars, client_vars>>

\* TripAdvisorClient.search_location(query, location) is called.
SearchLocation(query, loc, answer) ==
    /\ adapter_call = NoCall
    /\ adapter_call' = [fn |-> "search_location", query |-> query,
                        outcome |-> search_location(query, loc, answer).outcome,
                        requests |-> search_location(query, loc, answer).requests]
    /\ UNCHANGED <<tool_vars, client_vars>>

\* GooglePlacesClient._sort_reviews_by_latest(reviews) is called.
SortGoogleReviews(times) ==
    /\ adapter_call = NoCall
    /\ adapter_call' = [fn |-> "GooglePlaces_sort_reviews_by_latest",
                        reviews |-> ReviewsOf(times),
                        sorted |-> GooglePlaces_sort_reviews_by_latest(ReviewsOf(times)),
                        again |-> FALSE]
    /\ UNCHANGED <<tool_vars, client_vars>>

\* TripAdvisorClient._sort_reviews_by_latest(reviews) is called.
SortTripAdvisorReviews(times) ==
    /\ adapter_call = NoCall
    /\ adapter_call' = [fn |-> "TripAdvisor_sort_reviews_by_latest",
                        reviews |-> ReviewsOf(times),
                        sorted |-> TripAdvisor_sort_reviews_by_latest(ReviewsOf(times)),
                        again |-> FALSE]
    /\ UNCHANGED <<tool_vars, client_vars>>

\* The same _sort_reviews_by_latest is called on the list it has returned.
SortAgain ==
    /\ adapter_call.fn \in {"GooglePlaces_sort_reviews_by_latest",
                            "TripAdvisor_sort_reviews_by_latest"}
    /\ ~adapter_call.again
    /\ adapter_call' =
          [fn |-> adapter_call.fn,
           reviews |-> adapter_call.sorted,
           sorted |-> IF adapter_call.fn = "GooglePlaces_sort_reviews_by_latest"
                      THEN GooglePlaces_sort_reviews_by_latest(adapter_call.sorted)
                      ELSE TripAdvisor_sort_reviews_by_latest(adapter_call.sorted),
           again |-> TRUE]
    /\ UNCHANGED <<tool_vars, client_vars>>

\* The caller has what the call returned; the next call starts afresh.
Return ==
    /\ adapter_call # NoCall
    /\ adapter_call' = NoCall
    /\ UNCHANGED <<tool_vars, client_vars>>

AdapterNext ==
    \/ /\ adapter_call = NoCall
       /\ \/ \E query \in QueryArgs, answer \in GoogleSearchAnswers : SearchPlace(query, answer)
          \/ \E query \in QueryArgs, loc \in SearchLocationArgs, answer \in TripAdvisorSearchAnswers :
                 SearchLocation(query, loc, answer)
          \/ \E times \in TimeLists : SortGoogleReviews(times)
          \/ \E times \in TimeLists : SortTripAdvisorReviews(times)
          \/ \E endpoint \in Endpoints, response \in TripAdvisorResponses :
                 MakeRequest(endpoint, response)
          \/ \E reviews \in GoogleBatches : ParseGoogleReviews(reviews)
          \/ \E reviews \in TripAdvisorBatches : ParseTripAdvisorReviews(reviews)
          \/ \E query \in GetReviewsQueries, search_answer \in GoogleSearchAnswers, details_answer \in GoogleDetailsAnswers, reviews \in GoogleBatches, author \in OtherAuthors :
                 GoogleGetReviews(query, search_answer, details_answer, reviews, author)
          \/ \E query \in GetReviewsQueries, search_answer \in TripAdvisorSearchAnswers, reviews_answer \in TripAdvisorReviewsAnswers, reviews \in TripAdvisorBatches, author \in OtherAuthors :
                 TripAdvisorGetReviews(query, None, search_answer, reviews_answer, reviews, author)
    \/ SortAgain
    \/ Return

AdapterSpec == Init /\ [][AdapterNext]_vars

(***************************************************************************)
(* The clients of the two adapter modules: get_google_places_client and    *)
(* get_tripadvisor_client, called by the threads that run the tool.  A     *)
(* step is one read or write of the module's global, or the construction   *)
(* of a client; the threads take their steps in any order.                 *)
(***************************************************************************)

\* The calls of get_..._client of all threads together.
MaxClientCalls == 3

Providers == {"google_places", "tripadvisor"}

\* The api_key arguments: none (as get_place_reviews and
\* get_location_reviews call), or a key (as the tests call).
ApiKeyArgs == {None, "key-1", "key-2"}

\* os.getenv of the provider's API key, at the time it is read.
EnvKeys == {None, "env-key"}

\* The value of the provider's global.
GlobalClient(provider) ==
    IF provider = "google_places" THEN _places_client ELSE _tripadvisor_client

\* The clients ever constructed for the provider.
ClientsOf(provider) == {c \in constructed : c.provider = provider}

\* A thread calls get_google_places_client(api_key) or
\* get_tripadvisor_client(api_key).
CallGetClient(t, provider, api_key) ==
    /\ frames[t] = NoFrame
    /\ client_calls < MaxClientCalls
    /\ client_calls' = client_calls + 1
    /\ frames' = [frames EXCEPT ![t] =
                     [pc |-> "check", provider |-> provider, api_key |-> api_key,
                      new |-> NoClient]]
    /\ UNCHANGED <<_places_client, _tripadvisor_client, constructed, handed_out, accessed>>
    /\ UNCHANGED <<tool_vars, adapter_call>>

\* `if _places_client is None:` the global is read.
CheckNone(t) ==
    /\ frames[t].pc = "check"
    /\ accessed' = accessed \cup {[thread |-> t, global |-> frames[t].provider, kind |-> "read"]}
    /\ frames' = [frames EXCEPT ![t].pc =
                     IF GlobalClient(frames[t].provider) = NoClient
                     THEN "construct" ELSE "return"]
    /\ UNCHANGED <<_places_client, _tripadvisor_client, constructed, handed_out, client_calls>>
    /\ UNCHANGED <<tool_vars, adapter_call>>

\* GooglePlacesClient(api_key=api_key) / TripAdvisorClient(api_key=api_key):
\* the key is api_key or that of the environment; without a key ValueError
\* is raised and the call is over, the global as it was.
Construct(t, env) ==
    /\ frames[t].pc = "construct"
    /\ LET key == IF Truthy(frames[t].api_key) THEN frames[t].api_key ELSE env
           id  == Cardinality(ClientsOf(frames[t].provider)) + 1
       IN  IF ~Truthy(key)
           THEN /\ frames' = [frames EXCEPT ![t] = NoFrame]
                /\ UNCHANGED constructed
           ELSE /\ frames' = [frames EXCEPT ![t].pc = "store", ![t].new = id]
                /\ constructed' = constructed
                       \cup {[provider |-> frames[t].provider, id |-> id, key |-> key]}
    /\ UNCHANGED <<_places_client, _tripadvisor_client, handed_out, accessed, client_calls>>
    /\ UNCHANGED <<tool_vars, adapter_call>>

\* `_places_client = ...`: the global is written.
Store(t) ==
    /\ frames[t].pc = "store"
    /\ accessed' = accessed \cup {[thread |-> t, global |-> frames[t].provider, kind |-> "write"]}
    /\ IF frames[t].provider = "google_places"
       THEN _places_client' = frames[t].new /\ UNCHANGED _tripadvisor_client
       ELSE _tripadvisor_client' = frames[t].new /\ UNCHANGED _places_client
    /\ frames' = [frames EXCEPT ![t].pc = "return"]
    /\ UNCHANGED <<constructed, handed_out, client_calls>>
    /\ UNCHANGED <<tool_vars, adapter_call>>

\* `return _places_client`: the global is read and the caller has the
\* client.
ReturnClient(t) ==
    /\ frames[t].pc = "return"
    /\ accessed' = accessed \cup {[thread |-> t, global |-> frames[t].provider, kind |-> "read"]}
    /\ handed_out' = handed_out
           \cup {[thread |-> t, provider |-> frames[t].provider,
                  id |-> GlobalClient(frames[t].provider)]}
    /\ frames' = [frames EXCEPT ![t] = NoFrame]
    /\ UNCHANGED <<_places_client, _tripadvisor_client, constructed, client_calls>>
    /\ UNCHANGED <<tool_vars, adapter_call>>

ClientNext ==
    \/ \E t \in Threads, provider \in Providers, api_key \in ApiKeyArgs :
           CallGetClient(t, provider, api_key)
    \/ \E t \in Threads : CheckNone(t)
    \/ \E t \in Threads, env \in EnvKeys : Construct(t, env)
    \/ \E t \in Threads : Store(t)
    \/ \E t \in Threads : ReturnClient(t)

ClientSpec == Init /\ [][ClientNext]_vars

(***************************************************************************)
(* Properties                                                              *)
(***************************************************************************)

\* Some line of the returned text contains sub.
HasLine(sub) == \E i \in 1..Len(result) : Contains(result[i], sub)

\* The number of the first line of the returned text that contains sub, 0
\* when there is none.
LineOf(sub) ==
    IF HasLine(sub)
    THEN CHOOSE i \in 1..Len(result) :
             /\ Contains(result[i], sub)
             /\ \A j \in 1..(i - 1) : ~Contains(result[j], sub)
    ELSE 0

\* s is None or made of whitespace only.
IsBlank(s) == s = None \/ \A i \in 1..Len(s) : CharAt(s, i) \in Whitespace

\* The calls made to TripAdvisor so far.
TripAdvisorCalls == SubSeq(calls, 2, Len(calls))

\* The invocation has returned and had a place_name that is not blank.
ReturnedForValidName == pc = "done" /\ ~IsBlank(args.place_name)

\* C1: whenever the tool returns for a place_name that is not blank, the
\* string is not empty and contains "PLACE REVIEWS SUMMARY" and the trimmed
\* place_name, whatever the providers did.
C1_HeaderAndPlaceNameAlways ==
    ReturnedForValidName =>
        /\ result # <<>>
        /\ HasLine("PLACE REVIEWS SUMMARY")
        /\ HasLine(Strip(args.place_name))

\* C2: when Google Places gave a place with an address and every call of
\* TripAdvisor failed, the returned text is the whole template: the block of
\* Google Places with its data, then the ERROR block of TripAdvisor saying
\* the place was not found after several attempts and listing causes, then
\* the summary.
C2_TripAdvisorFailureKeepsTemplate ==
    ( /\ pc = "done"
      /\ Len(calls) >= 2
      /\ calls[1].ok
      /\ Truthy(google_place_data.address)
      /\ \A i \in 2..Len(calls) : ~calls[i].ok )
    =>  /\ HasLine("PLACE REVIEWS SUMMARY")
        /\ HasLine("Source: Google Places")
        /\ HasLine("Place Name: " \o google_place_data.name)
        /\ HasLine("ADDRESS: " \o google_place_data.address)
        /\ HasLine("Source: TripAdvisor")
        /\ HasLine("Status: ERROR - The place could not be found in TripAdvisor after trying multiple search strategies")
        /\ HasLine("1. The place doesn't exist in TripAdvisor's database")
        /\ HasLine("SUMMARY:")
        /\ LineOf("Source: Google Places") < LineOf("Source: TripAdvisor")
        /\ LineOf("Source: TripAdvisor") < LineOf("SUMMARY:")

\* C3: for a place_name that is empty or whitespace only the tool returns
\* a string containing "ERROR" and has called no provider adapter.
C3_BlankNameErrorWithoutCalls ==
    (pc # "idle" /\ IsBlank(args.place_name)) =>
        /\ pc = "done"
        /\ calls = <<>>
        /\ HasLine("ERROR")

C3_Witness ==
    /\ pc = "done"
    /\ args.place_name = "  "
    /\ calls = <<>>
    /\ HasLine("ERROR: Invalid place_name")

\* C4: no exception leaves the tool: an invocation is never in a raised
\* state, and once it is over it has returned a string, an invalid
\* place_name included.
C4_AlwaysReturnsString ==
    /\ pc \in {"idle", "google", "tripadvisor", "format", "done"}
    /\ pc = "done" =>
          /\ result # NoResult
          /\ \A i \in 1..Len(result) : Len(result[i]) >= 0
    /\ (pc = "done" /\ IsBlank(args.place_name)) => HasLine("ERROR")

C4_Witness ==
    /\ pc = "done"
    /\ retrying
    /\ Len(calls) >= 2
    /\ ~calls[Len(calls)].ok
    /\ HasLine("ERROR: Unexpected error in get_place_reviews_from_apis")

\* C5: when the call of Google Places failed, or gave a place without
\* address, Google Places is called once only and TripAdvisor exactly once,
\* with the trimmed place_name as query and the caller's location as it came.
C5_FallbackToOriginalParameters ==
    (Len(calls) >= 1 /\ (~calls[1].ok \/ ~Truthy(google_place_data.address))) =>
        /\ Len(calls) <= 2
        /\ \A i \in 1..Len(calls) : (calls[i].provider = "google") <=> (i = 1)
        /\ \A i \in 2..Len(calls) :
              /\ calls[i].query = Strip(args.place_name)
              /\ calls[i].location = args.location
        /\ pc \in {"format", "done"} => Len(calls) = 2

C5_Witness ==
    /\ pc = "done"
    /\ Len(calls) = 2
    /\ ~calls[1].ok
    /\ calls[2].provider = "tripadvisor"
    /\ calls[2].location = "Paris, France"

\* C6: the calls of one invocation come one after the other: at most one
\* call of Google Places, before every call of TripAdvisor; at most three
\* calls of TripAdvisor, the i-th with the i-th location of the list; a call
\* of TripAdvisor is made only after the one before it failed, so none
\* follows a success.
C6_CallsSequential ==
    /\ Len(calls) <= 4
    /\ \A i \in 1..Len(calls) : (calls[i].provider = "google") <=> (i = 1)
    /\ \A i \in 2..Len(calls) :
          /\ calls[i].provider = "tripadvisor"
          /\ i - 1 <= Len(location_attempts)
          /\ calls[i].location = location_attempts[i - 1]
          /\ i < Len(calls) => ~calls[i].ok
    /\ (pc \in {"google"} => calls = <<>>)
    /\ (pc = "tripadvisor" => \A i \in 2..Len(calls) : ~calls[i].ok)

C6_Witness ==
    /\ pc = "format"
    /\ Len(calls) = 4
    /\ ~calls[2].ok
    /\ ~calls[3].ok
    /\ calls[4].ok

\* The locations C7 names, for an address of at least two parts and the
\* caller's location: "<second to last>, <last>", "<second to last>" and the
\* caller's location when there is one.
C7_Listed(address, hint) ==
    LET parts == SplitComma(address)
        city  == Strip(parts[Len(parts) - 1])
        last  == Strip(parts[Len(parts)])
    IN  <<city \o ", " \o last, city>> \o (IF Truthy(hint) THEN <<hint>> ELSE <<>>)

\* The places of a list at which an item stands for the first time.
C7_FirstPlaces(list) == {i \in 1..Len(list) : \A j \in 1..(i - 1) : list[j] # list[i]}

\* The k-th item of a list once the repetitions are dropped.
C7_Kth(list, k) ==
    list[CHOOSE i \in C7_FirstPlaces(list) :
             Cardinality({j \in C7_FirstPlaces(list) : j <= i}) = k]

\* C7: when Google Places gave an address of at least two comma-separated
\* parts, the calls of TripAdvisor have the name Google Places returned as
\* query and, in order, the locations listed above without repetition; all
\* of them when every call failed; and "221B Baker St, London, UK" gives
\* "London, UK" first.
C7_LocationCandidates ==
    ( /\ Len(calls) >= 1
      /\ calls[1].ok
      /\ Truthy(google_place_data.address)
      /\ Len(SplitComma(google_place_data.address)) >= 2 )
    =>  LET listed == C7_Listed(google_place_data.address, args.location)
            n      == Cardinality(C7_FirstPlaces(listed))
        IN  /\ Len(TripAdvisorCalls) <= n
            /\ \A k \in 1..Len(TripAdvisorCalls) :
                  /\ TripAdvisorCalls[k].query = google_place_data.name
                  /\ TripAdvisorCalls[k].location = C7_Kth(listed, k)
            /\ \A k, l \in 1..Len(TripAdvisorCalls) :
                  k # l => TripAdvisorCalls[k].location # TripAdvisorCalls[l].location
            /\ (pc = "done" /\ \A k \in 1..Len(TripAdvisorCalls) : ~TripAdvisorCalls[k].ok)
                  => Len(TripAdvisorCalls) = n
            /\ (google_place_data.address = "221B Baker St, London, UK"
                /\ TripAdvisorCalls # <<>>)
                  => TripAdvisorCalls[1].location = "London, UK"

C7_Witness ==
    /\ pc = "done"
    /\ google_place_data # NoData
    /\ google_place_data.address = "221B Baker St, London, UK"
    /\ args.location = "London, UK"
    /\ Len(TripAdvisorCalls) = 2
    /\ TripAdvisorCalls[1].location = "London, UK"
    /\ TripAdvisorCalls[2].location = "London"

\* C8: the call of Google Places has the trimmed place_name and the
\* caller's location as arguments: a location that was given is passed on.
C8_GoogleCallHasLocation ==
    \A i \in 1..Len(calls) :
        calls[i].provider = "google" =>
            /\ calls[i].query = Strip(args.place_name)
            /\ Truthy(args.location) => calls[i].location = args.location

\* Both providers gave a place and the tool has compared them.
BothCompared == pc = "done" /\ google_place_data # NoData /\ tripadvisor_data # NoData

\* The words of the first comma-separated part of an address, lowercased.
FirstPartWords(address) ==
    IF Truthy(address) THEN Split(Lower(SplitComma(address)[1])) ELSE <<>>

\* The address begins with a street number made of digits only.
HasStreetNumber(address) ==
    FirstPartWords(address) # <<>> /\ IsDigit(FirstPartWords(address)[1])

\* The words of the street name of an address that begins with a street
\* number: those after the number in its first part, the street-type words
\* aside.
C9_StreetNameWords(address) ==
    SetOf(Tail(FirstPartWords(address))) \ {"street", "st", "avenue", "ave", "road", "rd"}

\* The rule of C9 on two addresses that begin with a street number.
C9_Rule(a, b) ==
    /\ FirstPartWords(a)[1] = FirstPartWords(b)[1]
    /\ \E w \in C9_StreetNameWords(a) \cap C9_StreetNameWords(b) : Len(w) > 2

\* C9: when both providers gave a place and both addresses begin with a
\* street number of digits, the addresses match exactly when the numbers are
\* equal and the street names share a word longer than 2 characters, and a
\* match of the addresses makes the places the same whatever the names; the
\* two Hayarkon addresses match.
C9_StreetNumberRule ==
    ( /\ BothCompared
      /\ HasStreetNumber(google_place_data.address)
      /\ HasStreetNumber(tripadvisor_data.address) )
    =>  /\ addresses_match <=> C9_Rule(google_place_data.address, tripadvisor_data.address)
        /\ addresses_match => places_match
        /\ ( /\ google_place_data.address = "19 Hayarkon St, Tel Aviv, Israel"
             /\ tripadvisor_data.address = "19 Hayarkon Street, Tel Aviv-Yafo, Israel" )
           => (addresses_match /\ places_match)

\* A word of an address as C10 normalizes it: periods and commas removed,
\* a street-type word abbreviated.
C10_NormalizedWord(w) ==
    LET bare == Replace(Replace(w, ".", ""), ",", "")
    IN  IF bare = "street" THEN "st"
        ELSE IF bare = "avenue" THEN "ave"
        ELSE IF bare = "road" THEN "rd"
        ELSE IF bare = "boulevard" THEN "blvd"
        ELSE bare

\* The words of the normalized address that count for C10: longer than 3
\* characters and none of "the", "and", "at".
C10_SignificantWords(address) ==
    {w \in {C10_NormalizedWord(v) : v \in SetOf(Split(Lower(address)))} :
        Len(w) > 3 /\ w \notin {"the", "and", "at"}}

\* C10: when both providers gave a non-empty address and one of the two
\* does not begin with a street number, the addresses match exactly when the
\* normalized addresses share two significant words or more; when both begin
\* with a street number the shared words alone do not make them match.
C10_SharedWordsRule ==
    /\ ( /\ BothCompared
         /\ Truthy(google_place_data.address)
         /\ Truthy(tripadvisor_data.address)
         /\ ~(HasStreetNumber(google_place_data.address)
              /\ HasStreetNumber(tripadvisor_data.address)) )
       => ( addresses_match <=>
              Cardinality(C10_SignificantWords(google_place_data.address)
                          \cap C10_SignificantWords(tripadvisor_data.address)) >= 2 )
    /\ ( /\ BothCompared
         /\ HasStreetNumber(google_place_data.address)
         /\ HasStreetNumber(tripadvisor_data.address)
         /\ FirstPartWords(google_place_data.address)[1]
                # FirstPartWords(tripadvisor_data.address)[1] )
       => ~addresses_match

\* The number of lines of the returned text that contain sub.
CountLines(sub) == Cardinality({i \in 1..Len(result) : Contains(result[i], sub)})

\* Some line of the returned text contains both a and b.
HasLineWith(a, b) ==
    \E i \in 1..Len(result) : Contains(result[i], a) /\ Contains(result[i], b)

\* The whitespace-separated tokens of a lowercased name that are longer than
\* 3 characters.
C11_Tokens(name) == {w \in SetOf(Split(Lower(name))) : Len(w) > 3}

\* C11: when both providers gave a place and the addresses were not found to
\* match (an absent address never matches), the places are the same exactly
\* when the lowercased names share two tokens longer than 3 characters or
\* more; "Joe's Diner" at "5 Main St, Springfield, USA" and "City Hall" at
\* "200 Oak Ave, Springfield, USA" are different places.
C11_NameFallback ==
    /\ ( BothCompared
         /\ (~Truthy(google_place_data.address) \/ ~Truthy(tripadvisor_data.address)) )
       => ~addresses_match
    /\ (BothCompared /\ ~addresses_match)
       => ( places_match <=>
              Cardinality(C11_Tokens(google_place_data.name)
                          \cap C11_Tokens(tripadvisor_data.name)) >= 2 )
    /\ ( /\ BothCompared
         /\ google_place_data.name = "Joe's Diner"
         /\ google_place_data.address = "5 Main St, Springfield, USA"
         /\ tripadvisor_data.name = "City Hall"
         /\ tripadvisor_data.address = "200 Oak Ave, Springfield, USA" )
       => ~places_match

C11_Witness ==
    /\ BothCompared
    /\ google_place_data.name = "Joe's Diner"
    /\ google_place_data.address = "5 Main St, Springfield, USA"
    /\ tripadvisor_data.name = "City Hall"
    /\ tripadvisor_data.address = "200 Oak Ave, Springfield, USA"
    /\ ~addresses_match
    /\ ~places_match

\* The names alone make two places the same: no address on either side.
C11_SameByName ==
    /\ BothCompared
    /\ google_place_data.address = None
    /\ tripadvisor_data.address = None
    /\ ~addresses_match
    /\ places_match

\* C12: when a provider was called and failed, so that one result or both
\* are absent, the places count as the same: the returned text has no
\* "DIFFERENT PLACES" warning and its summary does not say that different
\* places were found.
C12_AbsentResultNoWarning ==
    ( /\ pc = "done"
      /\ Len(calls) >= 1
      /\ (google_place_data = NoData \/ tripadvisor_data = NoData) )
    =>  /\ places_match
        /\ ~HasLine("DIFFERENT PLACES")
        /\ ~HasLine("Different places were found")

C12_Witness ==
    /\ pc = "done"
    /\ Len(calls) = 2
    /\ google_place_data = NoData
    /\ tripadvisor_data # NoData
    /\ places_match
    /\ HasLine("SUMMARY:")
    /\ HasLine("The address(es) and ratings shown above indicate the location found.")

\* Both providers gave a place and the places were found to be different.
DifferentPlaces ==
    google_place_data # NoData /\ tripadvisor_data # NoData /\ ~places_match

\* What the warning prints for an address: the address, or a note that
\* there is none.
C13_AddressShown(address) ==
    IF Truthy(address) THEN address ELSE "Address not available"

\* C13: the returned text has the "WARNING: DIFFERENT PLACES FOUND" block,
\* once, exactly when both providers gave a place and the places are
\* different; the block names each provider's place with its address, and it
\* stands before the location information; the summary says that different
\* places were found in exactly the same cases.
C13_WarningIffDifferent ==
    pc = "done" =>
        /\ HasLine("WARNING: DIFFERENT PLACES FOUND") <=> DifferentPlaces
        /\ CountLines("WARNING: DIFFERENT PLACES FOUND") <= 1
        /\ HasLine("IMPORTANT: Different places were found") <=> DifferentPlaces
        /\ DifferentPlaces =>
              /\ HasLineWith("Google Places: " \o google_place_data.name \o " at ",
                             C13_AddressShown(google_place_data.address))
              /\ HasLineWith("TripAdvisor: " \o tripadvisor_data.name \o " at ",
                             C13_AddressShown(tripadvisor_data.address))
              /\ LineOf("WARNING: DIFFERENT PLACES FOUND") < LineOf("LOCATION INFORMATION:")
              /\ LineOf("SUMMARY:") < LineOf("IMPORTANT: Different places were found")

C13_Witness ==
    /\ pc = "done"
    /\ DifferentPlaces
    /\ google_place_data.address = "221B Baker St, London, UK"
    /\ tripadvisor_data.address = None
    /\ HasLine("WARNING: DIFFERENT PLACES FOUND")
    /\ HasLineWith("TripAdvisor: Central Park at ", "Address not available")
    /\ HasLine("IMPORTANT: Different places were found")

\* Both providers gave a place with a rating.
BothRatingsPresent ==
    /\ google_place_data # NoData
    /\ tripadvisor_data # NoData
    /\ google_place_data.rating # NoneNum
    /\ tripadvisor_data.rating # NoneNum

\* The first part of C14: one "Average Rating" line when the places are the
\* same and both ratings are present, none otherwise, and never one together
\* with the warning.
C14_AverageLineRule ==
    pc = "done" =>
        /\ CountLines("Average Rating") =
              (IF places_match /\ BothRatingsPresent THEN 1 ELSE 0)
        /\ ~(HasLine("Average Rating") /\ HasLine("WARNING: DIFFERENT PLACES FOUND"))

\* C14 as stated: the rule above, and whenever both providers gave a place
\* and the addresses match the text has exactly one "Average Rating" line and
\* no warning.
C14_AverageLineAsStated ==
    /\ C14_AverageLineRule
    /\ (BothCompared /\ addresses_match) =>
          /\ CountLines("Average Rating") = 1
          /\ CountLines("WARNING: DIFFERENT PLACES FOUND") = 0

\* C14 amended: the rule above, and whenever both providers gave a place
\* with a rating and the addresses match the text has exactly one "Average
\* Rating" line and no warning; without both ratings it has neither.
C14_AverageLine ==
    /\ C14_AverageLineRule
    /\ (BothCompared /\ addresses_match) =>
          /\ CountLines("Average Rating") = (IF BothRatingsPresent THEN 1 ELSE 0)
          /\ CountLines("WARNING: DIFFERENT PLACES FOUND") = 0

C14_Witness ==
    /\ pc = "done"
    /\ args.place_name = " Eiffel Tower "
    /\ args.location = "Paris, France"
    /\ BothCompared
    /\ google_place_data.name = "Eiffel Tower"
    /\ tripadvisor_data.name = "Eiffel Tower Paris"
    /\ addresses_match
    /\ CountLines("Average Rating: 4.5/5.0") = 1
    /\ ~HasLine("WARNING: DIFFERENT PLACES FOUND")

\* The call of Google Places failed because the search found no place.
C15_GoogleNotFound ==
    /\ Len(calls) >= 1
    /\ ~calls[1].ok
    /\ StartsWithAt(calls[1].error, "Place not found for query: ", 1)

\* The lines of the block of Google Places: from its "Source:" line up to
\* the one of TripAdvisor.
C15_GoogleBlock ==
    {i \in 1..Len(result) :
        LineOf("Source: Google Places") <= i /\ i < LineOf("Source: TripAdvisor")}

\* The lines of the block of Google Places that give a numbered cause.
C15_Causes ==
    {i \in C15_GoogleBlock :
        \E k \in 1..9 : StartsWithAt(result[i], ToString(k) \o ". ", 1)}

\* The detail block of TripAdvisor is filled in: the name, and the address,
\* the rating, the number of reviews and the reviews when there are some.
C15_TripAdvisorDetails ==
    /\ LineOf("Source: TripAdvisor") < LineOf("Place Name: " \o tripadvisor_data.name)
    /\ Truthy(tripadvisor_data.address) =>
          LineOf("Source: TripAdvisor") < LineOf("ADDRESS: " \o tripadvisor_data.address)
    /\ tripadvisor_data.rating # NoneNum =>
          HasLine("Overall Rating: " \o FloatStr(tripadvisor_data.rating) \o "/5.0")
    /\ tripadvisor_data.total_reviews # NoneNum =>
          HasLine("Total Reviews: " \o ToString(tripadvisor_data.total_reviews))
    /\ \A k \in 1..Len(tripadvisor_data.reviews) :
          HasLine("Review Text: " \o tripadvisor_data.reviews[k].text)
    /\ tripadvisor_data.reviews = <<>> => HasLine("Reviews: No reviews available")

\* C15: when Google Places fails because the place was not found and
\* TripAdvisor gives a place, the returned text has exactly one ERROR block,
\* the one of Google Places, whose explanation lists three causes or more
\* (a misspelled or incomplete name and a too specific location among them),
\* and after it the detail block of TripAdvisor, filled in.
C15_NotFoundErrorBlock ==
    ( /\ pc = "done"
      /\ C15_GoogleNotFound
      /\ Len(calls) = 2
      /\ calls[2].ok )
    =>  /\ CountLines("Status: ERROR") = 1
        /\ LineOf("Source: Google Places") > 0
        /\ LineOf("Status: ERROR") = LineOf("Source: Google Places") + 1
        /\ HasLine("was not found in Google Places")
        /\ Cardinality(C15_Causes) >= 3
        /\ \E i \in C15_Causes : Contains(result[i], "misspelled or incomplete")
        /\ \E i \in C15_Causes : Contains(result[i], "too specific")
        /\ \E i \in C15_Causes : Contains(result[i], "more complete place name")
        /\ LineOf("Status: ERROR") < LineOf("Source: TripAdvisor")
        /\ C15_TripAdvisorDetails

C15_Witness ==
    /\ pc = "done"
    /\ Len(calls) = 2
    /\ calls[1].error = "Place not found for query: Carlton Hotel"
    /\ calls[2].ok
    /\ tripadvisor_data.name = "Eiffel Tower Paris"
    /\ HasLine("Status: ERROR - The place 'Carlton Hotel' was not found in Google Places.")
    /\ HasLine("Review Text: Worth a visit")

\* The lines of a returned text from its "SUMMARY:" line on.
C16_SummaryOf(lines) ==
    IF \E i \in 1..Len(lines) : lines[i] = "SUMMARY:"
    THEN SubSeq(lines, CHOOSE i \in 1..Len(lines) : lines[i] = "SUMMARY:", Len(lines))
    ELSE <<>>

\* The summary the tool prints when both providers gave the same place.
C16_SummaryOfSuccess ==
    C16_SummaryOf(CombinedOutput("Eiffel Tower", None,
        [name |-> "Eiffel Tower", address |-> None, rating |-> NoneNum],
        [name |-> "Eiffel Tower", address |-> None, rating |-> NoneNum],
        <<>>, <<>>, TRUE))

\* Both providers were called and both failed.
BothFailed ==
    pc = "done" /\ Len(calls) = 2 /\ ~calls[1].ok /\ ~calls[2].ok

\* The part of C16 about the structure: when both providers fail the
\* returned text is not empty and has the header, the location block, two
\* ERROR blocks, the first of Google Places and the second of TripAdvisor,
\* each with an explanation, and the summary, in this order.
C16_BothFailStructure ==
    BothFailed =>
        /\ result # <<>>
        /\ LineOf("PLACE REVIEWS SUMMARY") > 0
        /\ LineOf("PLACE REVIEWS SUMMARY") < LineOf("LOCATION INFORMATION:")
        /\ LineOf("LOCATION INFORMATION:") < LineOf("Source: Google Places")
        /\ CountLines("Status: ERROR - ") = 2
        /\ result[LineOf("Source: Google Places") + 1] # "Status: ERROR - "
        /\ StartsWithAt(result[LineOf("Source: Google Places") + 1], "Status: ERROR - ", 1)
        /\ LineOf("Source: Google Places") < LineOf("Source: TripAdvisor")
        /\ result[LineOf("Source: TripAdvisor") + 1] # "Status: ERROR - "
        /\ StartsWithAt(result[LineOf("Source: TripAdvisor") + 1], "Status: ERROR - ", 1)
        /\ LineOf("Source: TripAdvisor") < LineOf("SUMMARY:")

\* C16: when both providers fail the returned text is not empty and has
\* the whole template (header, location block, two ERROR blocks with their
\* explanations, summary), and the summary notes that everything failed: it
\* says something that the summary of a search where both providers found
\* the place does not say.
C16_BothFailFullTemplate ==
    /\ C16_BothFailStructure
    /\ BothFailed =>
          /\ C16_SummaryOf(result) # <<>>
          /\ C16_SummaryOf(result) # C16_SummaryOfSuccess

\* q without the whitespace at its two ends.
C17_Trimmed(q) ==
    LET kept == {i \in 1..Len(q) : CharAt(q, i) \notin Whitespace}
    IN  IF kept = {} THEN ""
        ELSE SubSeq(q, CHOOSE i \in kept : \A j \in kept : i <= j,
                       CHOOSE i \in kept : \A j \in kept : j <= i)

\* q is a string of 2 to 200 characters once trimmed.
C17_Acceptable(q) ==
    q # None /\ Len(C17_Trimmed(q)) >= 2 /\ Len(C17_Trimmed(q)) <= 200

\* The call ended with the ValueError of the validation of the query.
C17_Rejected ==
    /\ ~adapter_call.outcome.ok
    /\ adapter_call.outcome.exc.type = "ValueError"
    /\ StartsWithAt(adapter_call.outcome.exc.msg, "Place query must be ", 1)

\* C17: in both adapters a search goes on with the trimmed query exactly
\* when the query is a string of 2 to 200 characters once trimmed: then the
\* one request it sends carries the trimmed query; every other query (None,
\* empty, blank, 1 character, more than 200) ends with the ValueError of the
\* validation and no request is sent.
C17_QueryValidation ==
    adapter_call.fn \in {"search_place", "search_location"} =>
        IF C17_Acceptable(adapter_call.query)
        THEN /\ ~C17_Rejected
             /\ Len(adapter_call.requests) = 1
             /\ adapter_call.requests[1].query = C17_Trimmed(adapter_call.query)
        ELSE /\ C17_Rejected
             /\ adapter_call.requests = <<>>

C17_Witness ==
    /\ adapter_call.fn = "search_location"
    /\ Len(adapter_call.query) = 203
    /\ adapter_call.outcome.ok
    /\ Len(adapter_call.requests) = 1
    /\ Len(adapter_call.requests[1].query) = 200

\* A query of 201 characters is turned down before any request.
C17_TooLongRejected ==
    /\ adapter_call.fn = "search_place"
    /\ Len(adapter_call.query) = 201
    /\ C17_Rejected
    /\ adapter_call.requests = <<>>

\* The times of a list of reviews.
TimesOf(reviews) == [i \in 1..Len(reviews) |-> reviews[i].time]

\* sorted has the reviews of given latest first: the same reviews, those
\* with a time first, no time before a later one, then those without time in
\* the order they had in given.
LatestFirst(given, sorted) ==
    LET timed == Cardinality({i \in 1..Len(given) : given[i].time # NoneNum})
    IN  /\ Len(sorted) = Len(given)
        /\ SetOf(sorted) = SetOf(given)
        /\ \A i \in 1..timed : sorted[i].time # NoneNum
        /\ \A i \in 1..(timed - 1) : sorted[i].time >= sorted[i + 1].time
        /\ SubSeq(sorted, timed + 1, Len(sorted))
              = SelectSeq(given, LAMBDA r : r.time = NoneNum)

\* C18: the sort of Google Places returns, for every list of reviews, the
\* reviews with a time by time, latest first, followed by the reviews
\* without time in their original order, so that no review without time
\* stands before one with a time; the times 5, None, 10, None, 1 give
\* 10, 5, 1, None, None.
C18_GoogleSortLatestFirst ==
    adapter_call.fn = "GooglePlaces_sort_reviews_by_latest" =>
        /\ LatestFirst(adapter_call.reviews, adapter_call.sorted)
        /\ TimesOf(adapter_call.reviews) = FiveTimes =>
              TimesOf(adapter_call.sorted) = <<10, 5, 1, NoneNum, NoneNum>>

\* C18 for reviews whose times are all after the start of the epoch.
C18_LatestFirstForLaterTimes ==
    ( /\ adapter_call.fn = "GooglePlaces_sort_reviews_by_latest"
      /\ \A i \in 1..Len(adapter_call.reviews) :
            adapter_call.reviews[i].time = NoneNum \/ adapter_call.reviews[i].time > 0 )
    =>  LatestFirst(adapter_call.reviews, adapter_call.sorted)

\* C19: the sort of TripAdvisor returns, for every list of reviews, the
\* reviews with a time by time, latest first, followed by the reviews
\* without time in their original order; the times 5, None, 10, None, 1 give
\* 10, 5, 1, None, None (the third, first, fifth, second and fourth review),
\* which is what the sort of Google Places makes of them.
C19_TripAdvisorSortLatestFirst ==
    adapter_call.fn = "TripAdvisor_sort_reviews_by_latest" =>
        /\ LatestFirst(adapter_call.reviews, adapter_call.sorted)
        /\ adapter_call.reviews = ReviewsOf(FiveTimes) =>
              /\ TimesOf(adapter_call.sorted) = <<10, 5, 1, NoneNum, NoneNum>>
              /\ adapter_call.sorted =
                    [p \in 1..5 |-> adapter_call.reviews[<<3, 1, 5, 2, 4>>[p]]]
              /\ adapter_call.sorted =
                    GooglePlaces_sort_reviews_by_latest(adapter_call.reviews)

C19_Witness ==
    /\ adapter_call.fn = "TripAdvisor_sort_reviews_by_latest"
    /\ ~adapter_call.again
    /\ TimesOf(adapter_call.reviews) = FiveTimes
    /\ TimesOf(adapter_call.sorted) = <<10, 5, 1, NoneNum, NoneNum>>
    /\ adapter_call.sorted[4].text = "review 2"
    /\ adapter_call.sorted[5].text = "review 4"

\* C20: in both adapters, sorting a list that the sort has returned gives
\* the same list again, reviews of equal time and reviews without time
\* included.
C20_SortIdempotent ==
    ( /\ adapter_call.fn \in {"GooglePlaces_sort_reviews_by_latest",
                              "TripAdvisor_sort_reviews_by_latest"}
      /\ adapter_call.again )
    =>  adapter_call.sorted = adapter_call.reviews

C20_Witness ==
    /\ adapter_call.fn = "GooglePlaces_sort_reviews_by_latest"
    /\ adapter_call.again
    /\ TimesOf(adapter_call.reviews) = <<5, 5, NoneNum>>
    /\ adapter_call.reviews[1].text = "review 1"
    /\ adapter_call.reviews[2].text = "review 3"
    /\ adapter_call.sorted = adapter_call.reviews

\* The _parse_reviews the call in adapter_call is of.
ParseOf(fn, reviews) ==
    IF fn = "GooglePlaces_parse_reviews" THEN GooglePlaces_parse_reviews(reviews)
    ELSE TripAdvisor_parse_reviews(reviews)

\* What _parse_reviews makes of the record alone.
ParsedAlone(fn, review_data) ==
    IF ParseOf(fn, <<review_data>>).ok THEN ParseOf(fn, <<review_data>>).value ELSE <<>>

RECURSIVE EachParsedAlone(_, _)
\* What _parse_reviews makes of every record alone, one after the other.
EachParsedAlone(fn, reviews) ==
    IF reviews = <<>> THEN <<>>
    ELSE ParsedAlone(fn, Head(reviews)) \o EachParsedAlone(fn, Tail(reviews))

\* A record with a rating of 1 to 5 stars and a text of some words, its
\* other fields of the types of the service.
WellFormedReview(review_data) ==
    /\ IsDict(review_data)
    /\ "rating" \in DOMAIN review_data
    /\ IsNum(review_data["rating"]) /\ review_data["rating"].num \in 1..5
    /\ "text" \in DOMAIN review_data
    /\ IsStr(review_data["text"]) /\ review_data["text"].str # ""
    /\ Get(review_data, "time", JNull) = JNull \/ IsNum(Get(review_data, "time", JNull))
    /\ IsStr(Get(review_data, "relative_time_description", JStr("")))

\* C21: for both providers and every list of raw review records,
\* _parse_reviews returns a list and raises nothing; the list is what it
\* makes of each record alone, at most one Review, put together in the
\* order of the records, so a record that is no Review is left out by
\* itself; every record of a rating of 1 to 5 and a text is in it; and the
\* list is never longer than the list of the records.
C21_ParseSkipsRecordByRecord ==
    adapter_call.fn \in {"GooglePlaces_parse_reviews", "TripAdvisor_parse_reviews"} =>
        /\ adapter_call.outcome.ok
        /\ Len(adapter_call.outcome.value) <= Len(adapter_call.raw)
        /\ \A i \in 1..Len(adapter_call.raw) :
              /\ Len(ParsedAlone(adapter_call.fn, adapter_call.raw[i])) <= 1
              /\ WellFormedReview(adapter_call.raw[i]) =>
                    /\ Len(ParsedAlone(adapter_call.fn, adapter_call.raw[i])) = 1
                    /\ ParsedAlone(adapter_call.fn, adapter_call.raw[i])[1].text
                           = adapter_call.raw[i]["text"].str
        /\ adapter_call.outcome.value = EachParsedAlone(adapter_call.fn, adapter_call.raw)

\* Of three records, the second without a rating, Google Places' parser has
\* returned the first and the third, and TripAdvisor's has done so of its
\* three, the second of a rating of words.
C21_Witness ==
    \/ /\ adapter_call.fn = "GooglePlaces_parse_reviews"
       /\ adapter_call.raw = GoogleMixedBatch
       /\ adapter_call.outcome.ok
       /\ Len(adapter_call.outcome.value) = 2
       /\ adapter_call.outcome.value[1].text = "Great place!"
       /\ adapter_call.outcome.value[2].text = "Okay place."
    \/ /\ adapter_call.fn = "TripAdvisor_parse_reviews"
       /\ adapter_call.raw = TripAdvisorMixedBatch
       /\ adapter_call.outcome.ok
       /\ Len(adapter_call.outcome.value) = 2
       /\ adapter_call.outcome.value[1].text = "Good experience"
       /\ adapter_call.outcome.value[2].text = "Nice location"

\* A call of get_reviews of either adapter has returned or raised.
GetReviewsCall ==
    adapter_call.fn \in {"GooglePlaces_get_reviews", "TripAdvisor_get_reviews"}

\* The names of the authors in the raw reviews of the response.
AuthorsOf(reviews) ==
    {reviews[i]["author_name"].str :
        i \in {j \in 1..Len(reviews) :
                  IsDict(reviews[j]) /\ "author_name" \in DOMAIN reviews[j]}}
    \cup {reviews[i]["user"]["username"].str :
            i \in {j \in 1..Len(reviews) : IsDict(reviews[j]) /\ "user" \in DOMAIN reviews[j]}}

\* C22: who wrote a review never reaches the output: a response of the
\* service that differs only in the fields telling the authors of its
\* reviews gives the same PlaceDetails, with the same Reviews, and the same
\* text of the tool; a Review has the fields rating, text, time and
\* relative_time_description and no other; and no line of the text holds
\* the name of an author.
C22_NoReviewerIdentity ==
    GetReviewsCall =>
        /\ adapter_call.other.outcome = adapter_call.outcome
        /\ adapter_call.other.output = adapter_call.output
        /\ adapter_call.outcome.ok =>
              \A i \in 1..Len(adapter_call.outcome.value.reviews) :
                  DOMAIN adapter_call.outcome.value.reviews[i]
                      = {"rating", "text", "time", "relative_time_description"}
        /\ \A author \in AuthorsOf(adapter_call.raw) :
              \A i \in 1..Len(adapter_call.output) :
                  ~Contains(adapter_call.output[i], author)

\* The reviews of John Doe and of traveller1 have come back as Reviews, as
\* they would have with Eve as their author.
C22_Witness ==
    /\ GetReviewsCall
    /\ adapter_call.author = "Eve"
    /\ AuthorsOf(adapter_call.raw) \cap {"John Doe", "traveller1"} # {}
    /\ adapter_call.outcome.ok
    /\ \E i \in 1..Len(adapter_call.outcome.value.reviews) :
          adapter_call.outcome.value.reviews[i].text \in {"Great place!", "Amazing place!"}
    /\ \E i \in 1..Len(adapter_call.output) :
          Contains(adapter_call.output[i], "Review Text: ")

\* C23: no thread writes a global that another thread reads or writes: of
\* two accesses to the same global by different threads, both are reads.
C23_NoSharedVariable ==
    \A a \in accessed, b \in accessed :
        a.thread # b.thread /\ a.global = b.global => a.kind = "read" /\ b.kind = "read"

\* C24: for each provider, at most one client has ever been constructed and
\* at most one has ever been returned, whatever the calls, their api_key
\* and their order.
C24_OneClientPerProvider ==
    \A provider \in Providers :
        /\ Cardinality(ClientsOf(provider)) <= 1
        /\ Cardinality({h.id : h \in {g \in handed_out : g.provider = provider}}) <= 1

\* The error message the service has sent with its response: the "message"
\* of the "error" of its JSON body, None when the body has none.
UpstreamMessage(response) ==
    IF "json" \in DOMAIN response.body
       /\ "error" \in DOMAIN response.body.json
       /\ "message" \in DOMAIN response.body.json["error"]
    THEN response.body.json["error"]["message"].str
    ELSE None

\* C25: of a response of status 400 or more, _make_request returns the
\* empty result exactly when the status is 404 and the service has sent an
\* error message that says "not found"; every other such response, a 404
\* without such a message included, is raised as an exception.
C25_NotFoundOnlyByUpstreamMessage ==
    (adapter_call.fn = "_make_request" /\ "status" \in DOMAIN adapter_call.response
     /\ adapter_call.response.status >= 400) =>
        (adapter_call.outcome.ok
         <=> /\ adapter_call.response.status = 404
             /\ UpstreamMessage(adapter_call.response) # None
             /\ Contains(Lower(UpstreamMessage(adapter_call.response)), "not found"))

\* As C25, of the responses that came with an error message, and of those
\* of a status other than 404.
C25_NotFoundByUpstreamMessage ==
    (adapter_call.fn = "_make_request" /\ "status" \in DOMAIN adapter_call.response
     /\ adapter_call.response.status >= 400
     /\ (UpstreamMessage(adapter_call.response) # None \/ adapter_call.response.status # 404)) =>
        (adapter_call.outcome.ok
         <=> /\ adapter_call.response.status = 404
             /\ UpstreamMessage(adapter_call.response) # None
             /\ Contains(Lower(UpstreamMessage(adapter_call.response)), "not found"))

\* The answers of a service that are a transport error or an HTTP error
\* status, the 404 taken as "not found" aside.
ErrorAnswers == {"api_error", "transport_error", "timeout"}

\* The search request of the call of get_reviews was sent and has failed.
SearchRequestFailed ==
    /\ _validate_place_query(adapter_call.query).ok
    /\ adapter_call.answers[1] \in ErrorAnswers

\* The search has found a place, and the request that follows it (the
\* details of Google Places, the reviews of TripAdvisor) has failed.
SecondRequestFailed ==
    /\ _validate_place_query(adapter_call.query).ok
    /\ adapter_call.answers[1] = "results"
    /\ adapter_call.answers[2] \in ErrorAnswers

\* get_reviews has raised an exception that is no ValueError.
RaisedUpstreamError ==
    ~adapter_call.outcome.ok /\ adapter_call.outcome.exc.type = "Exception"

\* C26 as stated: when any request of get_reviews of either adapter, the
\* search or the one after it, has failed, get_reviews raises an upstream
\* error and returns no PlaceDetails.
C26_AnyFailedRequestFailsTheCall ==
    (GetReviewsCall /\ (SearchRequestFailed \/ SecondRequestFailed)) => RaisedUpstreamError

\* C26: when the search request of get_reviews of either adapter has
\* failed, or the details request of Google Places, get_reviews raises an
\* upstream error and returns no PlaceDetails; when the reviews request of
\* TripAdvisor has failed, get_reviews returns the PlaceDetails of the place
\* found, without reviews.
C26_FailedRequests ==
    GetReviewsCall =>
        /\ SearchRequestFailed => RaisedUpstreamError
        /\ (SecondRequestFailed /\ adapter_call.fn = "GooglePlaces_get_reviews")
               => RaisedUpstreamError
        /\ (SecondRequestFailed /\ adapter_call.fn = "TripAdvisor_get_reviews") =>
               /\ adapter_call.outcome.ok
               /\ adapter_call.outcome.value.name = Strip(adapter_call.query)
               /\ adapter_call.outcome.value.reviews = <<>>

\* TripAdvisor has found the place, the request of its reviews has timed out
\* and get_reviews has returned.
C26_Witness ==
    /\ adapter_call.fn = "TripAdvisor_get_reviews"
    /\ adapter_call.query = "Eiffel Tower"
    /\ adapter_call.answers = <<"results", "timeout">>
    /\ adapter_call.outcome.ok
    /\ adapter_call.outcome.value.reviews = <<>>

\* C27: the PlaceDetails get_reviews of either adapter returns has at most
\* 5 reviews, however many records the response of the service had.
C27_AtMostFiveReviews ==
    (GetReviewsCall /\ adapter_call.outcome.ok) =>
        Len(adapter_call.outcome.value.reviews) <= 5

\* The PlaceDetails get_reviews returns has no more reviews than the
\* response of the service had records.
C27_NoMoreReviewsThanRecords ==
    (GetReviewsCall /\ adapter_call.outcome.ok) =>
        Len(adapter_call.outcome.value.reviews) <= Len(adapter_call.raw)

\* C28: every Review of the PlaceDetails get_reviews of either adapter
\* returns has a text that is not empty.
C28_ReviewTextNotEmpty ==
    (GetReviewsCall /\ adapter_call.outcome.ok) =>
        \A i \in 1..Len(adapter_call.outcome.value.reviews) :
            adapter_call.outcome.value.reviews[i].text # ""

\* As C28, of TripAdvisor alone.
C28_TripAdvisorReviewTextNotEmpty ==
    (adapter_call.fn = "TripAdvisor_get_reviews" /\ adapter_call.outcome.ok) =>
        \A i \in 1..Len(adapter_call.outcome.value.reviews) :
            adapter_call.outcome.value.reviews[i].text # ""

\* The returned text has the summary block with the location information.
HasLocationBlock == pc = "done" /\ HasLine("LOCATION INFORMATION:")

\* The location information has the entry of the provider of the given
\* label: the label, the name under it and, when there is a rating, the
\* rating within the next two lines.
LabelledEntry(label, data) ==
    \E i \in 1..(Len(result) - 1) :
        /\ LineOf("LOCATION INFORMATION:") < i
        /\ result[i] = "  " \o label \o ":"
        /\ result[i + 1] = "     Name: " \o data.name
        /\ data.rating # NoneNum =>
              \E j \in {i + 2, i + 3} :
                  /\ j <= Len(result)
                  /\ result[j] = "     Rating: " \o FloatStr(data.rating) \o "/5.0"

\* C29: in the returned text, every provider that gave a place has its
\* labelled entry in the location information, with the name of the place
\* and, when there is one, its rating, with or without an address; so the
\* ratings of an "Average Rating" line are both shown under their labels.
C29_EveryResultHasItsEntry ==
    HasLocationBlock =>
        /\ google_place_data # NoData => LabelledEntry("Google Places", google_place_data)
        /\ tripadvisor_data # NoData => LabelledEntry("TripAdvisor", tripadvisor_data)
        /\ HasLine("Average Rating") =>
              /\ LabelledEntry("Google Places", google_place_data)
              /\ LabelledEntry("TripAdvisor", tripadvisor_data)

\* As C29, of the providers that gave a place with an address.
C29_EveryAddressedResultHasItsEntry ==
    HasLocationBlock =>
        /\ (google_place_data # NoData /\ Truthy(google_place_data.address))
               => LabelledEntry("Google Places", google_place_data)
        /\ (tripadvisor_data # NoData /\ Truthy(tripadvisor_data.address))
               => LabelledEntry("TripAdvisor", tripadvisor_data)

\* C30: when both providers gave a place of the same name and the same
\* address, or both without address, the places count as the same and the
\* returned text has no "DIFFERENT PLACES" warning.
C30_SamePlaceIsSame ==
    ( /\ BothCompared
      /\ google_place_data.name = tripadvisor_data.name
      /\ google_place_data.address = tripadvisor_data.address )
    =>  /\ places_match
        /\ ~HasLine("DIFFERENT PLACES")

\* As C30, of names of two words of more than 3 characters.
C30_SamePlaceOfTwoWordsIsSame ==
    ( /\ BothCompared
      /\ google_place_data.name = tripadvisor_data.name
      /\ google_place_data.address = tripadvisor_data.address
      /\ Cardinality(C11_Tokens(google_place_data.name)) >= 2 )
    =>  /\ places_match
        /\ ~HasLine("DIFFERENT PLACES")

====
